---- MODULE Spec2Model ----
(***************************************************************************)
(* A model of the webhook subsystem of cyrus-codegen-integration:          *)
(* WebhookHandler (services/webhook-handler.ts) and the payload schema     *)
(* (types/schemas.ts); of CodegenBridge and PythonExecutor                 *)
(* (codegen-bridge.ts); and of CodegenClient's retry loop and the utility  *)
(* functions calculateRetryDelay, debounce and throttle                    *)
(* (api/codegen-client.ts).                                                *)
(*                                                                         *)
(* Strings are sequences of UTF-16 code units (naturals).  A raw request   *)
(* body is an index into the catalogue Bodies; a signature header is a     *)
(* record [defined, s] (a header that was not sent is not defined).        *)
(***************************************************************************)
EXTENDS Integers, Sequences, FiniteSets, TLC

VARIABLES
    config,     \* the WebhookHandler object's readonly fields, or its constructor's failure
    handlers,   \* this.handlers: event type -> contents of its array (<<>>: no entry)
    calls,      \* the processWebhook calls: position, inputs, held array, handler promises
    probe,      \* the last direct call of the public verifySignature and its outcome
    initialized,    \* CodegenBridge.initialized
    checks,         \* how often the executor's checkPython and checkCodegenInstalled were started
    bridgeCalls,    \* the calls of the CodegenBridge methods: position, inputs, outcome
    clock,          \* Date.now(), in ms
    executor,   \* PythonExecutor.execute: the temp directory, its files, the calls
    client,     \* CodegenClient.retryRequest: the retry configuration and one request
    debouncer,  \* a function made by debounce(func, wait): its closure and what it did
    throttler,  \* a function made by throttle(func, wait): its closure and what it did
    backoff     \* calculateRetryDelay: the arguments and the value of its last calls

vars == <<config, handlers, calls, probe, initialized, checks, bridgeCalls, clock,
          executor, client, debouncer, throttler, backoff>>
utilVars == <<executor, client, debouncer, throttler, backoff>>
bridgeVars == <<initialized, checks, bridgeCalls, clock>>

(***************************************************************************)
(* Bounds of the model.                                                    *)
(***************************************************************************)
MaxList == 2        \* longest handler array of one event type

(***************************************************************************)
(* Program constants.                                                      *)
(***************************************************************************)
DefaultMaxAge == 300        \* config.maxAge ?? 300
MsPerSecond == 1000         \* (now.getTime() - timestamp.getTime()) / 1000
DigestHexLen == 64          \* hex digits of a SHA-256 digest
HmacBlockSize == 64         \* bytes of the SHA-256 block an HMAC key is padded to

(***************************************************************************)
(* Text.                                                                   *)
(***************************************************************************)
Sha256Prefix == <<115, 104, 97, 50, 53, 54, 61>>                   \* "sha256="
InvalidSignatureText == Sha256Prefix \o <<105, 110, 118, 97, 108, 105, 100>>  \* "sha256=invalid"

\* The code units String.prototype.trim removes (those the model's inputs use).
IsWhiteSpace(c) == c \in {9, 10, 13, 32, 160}

RECURSIVE TrimStart(_)
TrimStart(s) ==
    IF s # <<>> /\ IsWhiteSpace(Head(s)) THEN TrimStart(Tail(s)) ELSE s

RECURSIVE TrimEnd(_)
TrimEnd(s) ==
    IF s # <<>> /\ IsWhiteSpace(s[Len(s)]) THEN TrimEnd(SubSeq(s, 1, Len(s) - 1)) ELSE s

Trim(s) == TrimEnd(TrimStart(s))

\* Buffer.from(s, "utf8") / hmac.update(s): the UTF-8 bytes of a string.  A lone
\* surrogate is encoded as U+FFFD; the model's inputs hold no surrogate pair.
Utf8Unit(c) ==
    IF c < 128 THEN <<c>>
    ELSE IF c < 2048 THEN <<192 + (c \div 64), 128 + (c % 64)>>
    ELSE IF c >= 55296 /\ c <= 57343 THEN <<239, 191, 189>>
    ELSE <<224 + (c \div 4096), 128 + ((c \div 64) % 64), 128 + (c % 64)>>

RECURSIVE Utf8(_)
Utf8(s) ==
    IF \A i \in DOMAIN s : s[i] < 128 THEN s          \* ASCII: one byte per unit
    ELSE IF Len(s) = 1 THEN Utf8Unit(s[1])
    ELSE LET half == Len(s) \div 2
         IN  Utf8(SubSeq(s, 1, half)) \o Utf8(SubSeq(s, half + 1, Len(s)))

HexChar(n) == IF n < 10 THEN 48 + n ELSE 87 + n

\* The hex digits of n (below 16^8), padded with zeros on the left to `width`.
Hex(n, width) ==
    [i \in 1..width |->
        LET place == width - i
        IN  HexChar(IF place > 7 THEN 0 ELSE (n \div (16 ^ place)) % 16)]

(***************************************************************************)
(* JSON values, as JSON.parse returns them: tagged, so that a schema can   *)
(* ask for a value's type before it reads it.                              *)
(***************************************************************************)
JString(s) == [t |-> "string", v |-> s]
JNumber(n) == [t |-> "number", v |-> n]
JObject(fields) == [t |-> "object", v |-> fields]
JNull == [t |-> "null"]

EventTimeMs == 1000000      \* the instant the catalogue's timestamp text denotes, in ms
IsoEventTime == "2024-01-01T00:00:00.000Z"

\* The ISO-8601 texts z.string().datetime() accepts, with new Date(text).getTime().
IsoInstant == (IsoEventTime :> EventTimeMs)

(***************************************************************************)
(* types/schemas.ts.  A schema is modelled by the predicate "parse          *)
(* succeeds"; z.object strips the keys it does not name.                   *)
(***************************************************************************)
CodegenEventTypeSchema ==
    {"agent.started", "agent.completed", "agent.failed", "agent.cancelled",
     "agent.progress", "tool.used", "file.created", "file.updated", "file.deleted"}

IsObject(x) == x.t = "object"
Has(x, k) == k \in DOMAIN x.v
HasString(x, k) == Has(x, k) /\ x.v[k].t = "string"
HasLiteral(x, k, lit) == HasString(x, k) /\ x.v[k].v = lit
HasNumber(x, k) == Has(x, k) /\ x.v[k].t = "number"
HasRecord(x, k) == Has(x, k) /\ x.v[k].t = "object"

\* z.string().datetime().or(z.date()): JSON holds no Date, so only the text succeeds.
DatetimeSchema(x) == x.t = "string" /\ x.v \in DOMAIN IsoInstant
HasDatetime(x, k) == Has(x, k) /\ DatetimeSchema(x.v[k])

CodegenErrorSchema(x) ==
    /\ IsObject(x)
    /\ HasString(x, "code")
    /\ HasString(x, "message")
    /\ (Has(x, "details") => HasRecord(x, "details"))
    /\ HasDatetime(x, "timestamp")

AgentMetadataSchema(x) ==
    /\ IsObject(x)
    /\ HasDatetime(x, "startTime")
    /\ (Has(x, "endTime") => HasDatetime(x, "endTime"))
    /\ (Has(x, "duration") => HasNumber(x, "duration"))
    /\ (Has(x, "tokensUsed") => HasNumber(x, "tokensUsed"))

AgentStartedDataSchema(x) ==
    /\ IsObject(x)
    /\ HasLiteral(x, "type", "agent.started")
    /\ HasString(x, "prompt")
    /\ HasString(x, "sessionId")

AgentCompletedDataSchema(x) ==
    /\ IsObject(x)
    /\ HasLiteral(x, "type", "agent.completed")
    /\ HasString(x, "sessionId")
    /\ HasString(x, "result")
    /\ Has(x, "metadata") /\ AgentMetadataSchema(x.v["metadata"])

AgentFailedDataSchema(x) ==
    /\ IsObject(x)
    /\ HasLiteral(x, "type", "agent.failed")
    /\ HasString(x, "sessionId")
    /\ Has(x, "error") /\ CodegenErrorSchema(x.v["error"])

ProgressInRange(n) == n >= 0 /\ n <= 100

AgentProgressDataSchema(x) ==
    /\ IsObject(x)
    /\ HasLiteral(x, "type", "agent.progress")
    /\ HasString(x, "sessionId")
    /\ HasString(x, "message")
    /\ HasNumber(x, "progress") /\ ProgressInRange(x.v["progress"].v)

ToolUsedDataSchema(x) ==
    /\ IsObject(x)
    /\ HasLiteral(x, "type", "tool.used")
    /\ HasString(x, "sessionId")
    /\ HasString(x, "toolName")
    /\ HasRecord(x, "parameters")

FileModifiedDataSchema(x) ==
    /\ IsObject(x)
    /\ HasString(x, "type")
    /\ x.v["type"].v \in {"file.created", "file.updated", "file.deleted"}
    /\ HasString(x, "sessionId")
    /\ HasString(x, "filePath")
    /\ (Has(x, "content") => HasString(x, "content"))

WebhookEventDataSchema(x) ==
    \/ AgentStartedDataSchema(x)
    \/ AgentCompletedDataSchema(x)
    \/ AgentFailedDataSchema(x)
    \/ AgentProgressDataSchema(x)
    \/ ToolUsedDataSchema(x)
    \/ FileModifiedDataSchema(x)

NoPayload == [event |-> "none", sessionId |-> "none", timestamp |-> 0, data |-> [type |-> "none"]]

\* WebhookEventPayloadSchema.parse: ok, and the parsed payload (of data, the
\* union tag; the variant's other fields are carried along and not modelled).
WebhookEventPayloadSchema(x) ==
    IF /\ IsObject(x)
       /\ HasString(x, "event") /\ x.v["event"].v \in CodegenEventTypeSchema
       /\ HasString(x, "sessionId")
       /\ HasDatetime(x, "timestamp")
       /\ Has(x, "data") /\ WebhookEventDataSchema(x.v["data"])
    THEN [ok |-> TRUE,
          out |-> [event |-> x.v["event"].v,
                   sessionId |-> x.v["sessionId"].v,
                   timestamp |-> IsoInstant[x.v["timestamp"].v],
                   data |-> [type |-> x.v["data"].v["type"].v]]]
    ELSE [ok |-> FALSE, out |-> NoPayload]

(***************************************************************************)
(* The catalogue of raw request bodies.  json: JSON.parse succeeds, and    *)
(* then value is what it returns; utf8 names the body's UTF-8 bytes (two   *)
(* texts that differ only in a lone surrogate have the same bytes).        *)
(***************************************************************************)
StartedData ==
    JObject([type |-> JString("agent.started"), prompt |-> JString("p"),
             sessionId |-> JString("s1")])
StartedDataNoPrompt ==
    JObject([type |-> JString("agent.started"), sessionId |-> JString("s1")])
ToolData ==
    JObject([type |-> JString("tool.used"), sessionId |-> JString("s1"),
             toolName |-> JString("Read"), parameters |-> JObject(<<>>)])
ProgressData(n) ==
    JObject([type |-> JString("agent.progress"), sessionId |-> JString("s1"),
             message |-> JString("m"), progress |-> JNumber(n)])
CancelledData ==
    JObject([type |-> JString("agent.cancelled"), sessionId |-> JString("s1")])
CompletedData ==
    JObject([type |-> JString("agent.completed"), sessionId |-> JString("s1"),
             result |-> JString("r"),
             metadata |-> JObject([startTime |-> JString(IsoEventTime)])])
FailedData ==
    JObject([type |-> JString("agent.failed"), sessionId |-> JString("s1"),
             error |-> JObject([code |-> JString("E"), message |-> JString("m"),
                                timestamp |-> JString(IsoEventTime)])])
FileData(type) ==
    JObject([type |-> JString(type), sessionId |-> JString("s1"),
             filePath |-> JString("f")])
Envelope(event, ts, data) ==
    JObject([event |-> JString(event), sessionId |-> JString("s1"),
             timestamp |-> JString(ts), data |-> data])
NotJson(bytes) == [json |-> FALSE, utf8 |-> bytes, value |-> JNull]
Json(bytes, value) == [json |-> TRUE, utf8 |-> bytes, value |-> value]

Bodies == <<
    Json(1, Envelope("agent.started", IsoEventTime, StartedData)),
    NotJson(2),                                             \* not valid json
    NotJson(3),                                             \* "\uD800"
    NotJson(3),                                             \* "\uD801"
    Json(5, JObject([event |-> JString("agent.started"),    \* no sessionId
                     timestamp |-> JString(IsoEventTime), data |-> StartedData])),
    Json(6, Envelope("agent.unknown", IsoEventTime, StartedData)),
    Json(7, Envelope("agent.started", IsoEventTime, ToolData)),
    Json(8, Envelope("agent.cancelled", IsoEventTime, StartedData)),
    Json(9, Envelope("agent.cancelled", IsoEventTime, CancelledData)),
    Json(10, Envelope("agent.progress", IsoEventTime, ProgressData(101))),
    Json(11, Envelope("agent.progress", IsoEventTime, ProgressData(100))),
    Json(12, Envelope("agent.started", IsoEventTime, StartedDataNoPrompt)),
    Json(13, Envelope("agent.started", "yesterday", StartedData)),
    Json(14, Envelope("agent.completed", IsoEventTime, CompletedData)),
    Json(15, Envelope("agent.failed", IsoEventTime, FailedData)),
    Json(16, Envelope("file.created", IsoEventTime, FileData("file.created"))),
    Json(17, Envelope("file.updated", IsoEventTime, FileData("file.updated"))),
    Json(18, Envelope("file.deleted", IsoEventTime, FileData("file.deleted"))),
    Json(19, Envelope("tool.used", IsoEventTime, ToolData)),
    Json(20, JNumber(42))
>>

BodyIds == 1..Len(Bodies)

(***************************************************************************)
(* Secrets and the constructor (webhook-handler.ts 37-46).                 *)
(***************************************************************************)
SecretK == <<107>>              \* "k"
SecretKNul == <<107, 0>>        \* "k\u0000"
SecretS == <<115>>              \* "s"
Secrets == {SecretK, SecretKNul, SecretS}
BlankSecrets == {<<>>, <<32>>}

Absent == [present |-> FALSE, v |-> 0]
Given(x) == [present |-> TRUE, v |-> x]
OrDefault(option, default) == IF option.present THEN option.v ELSE default

\* A bug the constructor could have: a secret of white space is accepted.
constructorNoTrim(cfg) ==
    IF Len(cfg.secret) = 0
    THEN [ok |-> FALSE, secret |-> <<>>, maxAge |-> 0, validateTimestamp |-> FALSE]
    ELSE [ok |-> TRUE,
          secret |-> cfg.secret,
          maxAge |-> OrDefault(cfg.maxAge, DefaultMaxAge),
          validateTimestamp |-> OrDefault(cfg.validateTimestamp, TRUE)]

constructor(cfg) ==
    IF Len(cfg.secret) = 0 \/ Len(Trim(cfg.secret)) = 0
    THEN [ok |-> FALSE, secret |-> <<>>, maxAge |-> 0, validateTimestamp |-> FALSE]
    ELSE [ok |-> TRUE,
          secret |-> cfg.secret,
          maxAge |-> OrDefault(cfg.maxAge, DefaultMaxAge),
          validateTimestamp |-> OrDefault(cfg.validateTimestamp, TRUE)]

(***************************************************************************)
(* HMAC-SHA256 (node:crypto).  The key is the secret's UTF-8 bytes padded  *)
(* with zero bytes to the block size (a longer key would be hashed first;  *)
(* no modelled secret is).  The digest itself is modelled as an injective  *)
(* function of the padded key and the message bytes: SHA-256 is assumed    *)
(* free of collisions, which the model does not check.                     *)
(***************************************************************************)
HmacKey(secret) ==
    LET bytes == Utf8(secret)
    IN  bytes \o [i \in 1..(HmacBlockSize - Len(bytes)) |-> 0]

RECURSIVE BytesNum(_)
BytesNum(bytes) ==
    IF \A i \in DOMAIN bytes : bytes[i] = 0 THEN 0
    ELSE Head(bytes) + 256 * BytesNum(Tail(bytes))

MessageSpace == Len(Bodies) + 1

\* The digests of the modelled secrets and bodies, computed once.
Digests ==
    [s \in Secrets, b \in BodyIds |->
        Hex(BytesNum(HmacKey(s)) * MessageSpace + Bodies[b].utf8, DigestHexLen)]

HmacSha256Hex(secret, payload) == Digests[secret, payload]

\* What a sender holding `secret` puts in the header for `payload`
\* (webhook-handler.test.ts 70-73).
Sign(secret, payload) == Sha256Prefix \o HmacSha256Hex(secret, payload)

computeSignature(payload) == Sha256Prefix \o HmacSha256Hex(config.secret, payload)

\* crypto.timingSafeEqual throws a RangeError on buffers of different length.
timingSafeEqual(a, b) == [threw |-> Len(a) # Len(b), value |-> a = b]

Returned(b) == [threw |-> FALSE, value |-> b]

\* A bug verifySignature could have: no length check and no try around the comparison.
verifySignatureUnguarded(payload, signature) ==
    IF ~signature.defined \/ Len(signature.s) = 0 \/ Len(Trim(signature.s)) = 0
    THEN Returned(FALSE)
    ELSE timingSafeEqual(Utf8(signature.s), Utf8(computeSignature(payload)))

\* A bug verifySignature could have: the comparison stops at the length check.
verifySignatureLengthOnly(payload, signature) ==
    IF ~signature.defined \/ Len(signature.s) = 0 \/ Len(Trim(signature.s)) = 0
    THEN Returned(FALSE)
    ELSE Returned(Len(Utf8(signature.s)) = Len(Utf8(computeSignature(payload))))

verifySignature(payload, signature) ==
    IF ~signature.defined \/ Len(signature.s) = 0 \/ Len(Trim(signature.s)) = 0
    THEN Returned(FALSE)
    ELSE LET expectedSignature == computeSignature(payload)
             signatureBuffer == Utf8(signature.s)
             expectedBuffer == Utf8(expectedSignature)
             compared == timingSafeEqual(signatureBuffer, expectedBuffer)
         IN  IF Len(signatureBuffer) # Len(expectedBuffer) THEN Returned(FALSE)
             ELSE IF compared.threw THEN Returned(FALSE)     \* catch { return false }
             ELSE Returned(compared.value)

(***************************************************************************)
(* Signature headers a request can carry.  An input names how the header   *)
(* was made; SignatureHeader gives the header for a call over `payload`.   *)
(***************************************************************************)
SigInput(kind, secret, body) == [kind |-> kind, secret |-> secret, body |-> body]
Header(s) == [defined |-> TRUE, s |-> s]
DropLast(s, n) == SubSeq(s, 1, Len(s) - n)

SignatureHeader(input, payload) ==
    LET expected == computeSignature(payload)
    IN  CASE input.kind = "signed"  -> Header(Sign(input.secret, input.body))
          [] input.kind = "missing" -> [defined |-> FALSE, s |-> <<>>]
          [] input.kind = "empty"   -> Header(<<>>)
          [] input.kind = "blank"   -> Header(<<32, 9>>)
          [] input.kind = "invalid" -> Header(InvalidSignatureText)
          [] input.kind = "short"   -> Header(DropLast(expected, 1))
          [] input.kind = "long"    -> Header(expected \o <<48>>)
          [] input.kind = "flip"    -> Header(DropLast(expected, 1) \o <<120>>)
          [] input.kind = "wide"    -> Header(DropLast(expected, 2) \o <<233>>)
          [] input.kind = "spaced"  -> Header(<<32>> \o expected \o <<32>>)

UnsignedKinds ==
    {"missing", "empty", "blank", "invalid", "short", "long", "flip", "wide", "spaced"}

SigInputs ==
    {SigInput("signed", s, b) : s \in Secrets, b \in BodyIds}
        \cup {SigInput(k, <<>>, 0) : k \in UnsignedKinds}

(***************************************************************************)
(* validatePayloadTimestamp (117-126).  `now` is the clock it reads.  age  *)
(* is (now - timestamp) / 1000, a fraction of seconds: age <= maxAge is    *)
(* compared here in milliseconds.                                          *)
(***************************************************************************)
\* A bug validatePayloadTimestamp could have: the age >= 0 test is missing.
validatePayloadTimestampNoFuture(timestamp, now) ==
    IF ~config.validateTimestamp THEN TRUE
    ELSE now - timestamp <= config.maxAge * MsPerSecond

validatePayloadTimestamp(timestamp, now) ==
    IF ~config.validateTimestamp THEN TRUE
    ELSE LET ageMs == now - timestamp
         IN  ageMs <= config.maxAge * MsPerSecond /\ ageMs >= 0

(***************************************************************************)
(* processWebhook, lines 135-157: the steps before executeHandlers.         *)
(***************************************************************************)
NoError == [class |-> "none", message |-> "none"]
SignatureInvalid ==
    [class |-> "WebhookVerificationError", message |-> "Invalid webhook signature"]
JsonParseFailed ==
    [class |-> "WebhookVerificationError", message |-> "Failed to parse webhook payload"]
SchemaViolation == [class |-> "ZodError", message |-> "invalid payload"]
TimestampRejected ==
    [class |-> "WebhookVerificationError",
     message |-> "Webhook timestamp is too old or in the future"]
ComparisonThrew == [class |-> "RangeError", message |-> "byte length"]
HandlerFailure(h) == [class |-> "HandlerError", message |-> h]

Throw(e) == [error |-> e, payload |-> NoPayload, nowRead |-> FALSE]

\* A bug processWebhook could have: the body is parsed before the signature is verified.
processWebhookParseFirst(rawPayload, signature, now) ==
    LET verified == verifySignature(rawPayload, signature)
        parsed == WebhookEventPayloadSchema(Bodies[rawPayload].value)
    IN  IF ~Bodies[rawPayload].json THEN Throw(JsonParseFailed)
        ELSE IF ~parsed.ok THEN Throw(SchemaViolation)
        ELSE IF verified.threw THEN Throw(ComparisonThrew)
        ELSE IF ~verified.value THEN Throw(SignatureInvalid)
        ELSE IF ~validatePayloadTimestamp(parsed.out.timestamp, now)
             THEN [error |-> TimestampRejected, payload |-> NoPayload, nowRead |-> TRUE]
        ELSE [error |-> NoError, payload |-> parsed.out, nowRead |-> TRUE]

processWebhookChecks(rawPayload, signature, now) ==
    LET verified == verifySignature(rawPayload, signature)
        parsed == WebhookEventPayloadSchema(Bodies[rawPayload].value)
    IN  IF verified.threw THEN Throw(ComparisonThrew)
        ELSE IF ~verified.value THEN Throw(SignatureInvalid)
        ELSE IF ~Bodies[rawPayload].json THEN Throw(JsonParseFailed)
        ELSE IF ~parsed.ok THEN Throw(SchemaViolation)
        ELSE IF ~validatePayloadTimestamp(parsed.out.timestamp, now)
             THEN [error |-> TimestampRejected, payload |-> NoPayload, nowRead |-> TRUE]
        ELSE [error |-> NoError, payload |-> parsed.out, nowRead |-> TRUE]

(***************************************************************************)
(* The handler registry.  this.handlers is a Map: an event type has an     *)
(* entry or it has none.  An array is an object: a processWebhook call in  *)
(* handlers.map holds the array it read, and `aliased` says whether that   *)
(* object is still the one the Map holds for the call's event type.  An    *)
(* operation on an array yields its items and whether they are in the same *)
(* object (a mutation in place) or in a new one.                            *)
(***************************************************************************)
Handlers == {"h1", "h2"}

\* A bug onAll could have: its array lacks the file events.
OnAllEventsAgentOnly ==
    <<"agent.started", "agent.completed", "agent.failed", "agent.cancelled",
      "agent.progress", "tool.used">>

\* The array onAll iterates (61-71).
OnAllEvents ==
    <<"agent.started", "agent.completed", "agent.failed", "agent.cancelled",
      "agent.progress", "tool.used", "file.created", "file.updated", "file.deleted">>

\* The event type the modelled callers pass to on, off and removeAllListeners.
RegEvents == {"agent.started"}

\* The model follows one processWebhook call, with the registry operations and
\* the handler completions that happen before, during and after it; SpecOverlap
\* follows two.
CallIds == {1}
TwoCallIds == {1, 2}

EmptyMap == [e \in {} |-> <<>>]
MapHas(m, e) == e \in DOMAIN m
MapGetOrEmpty(m, e) == IF e \in DOMAIN m THEN m[e] ELSE <<>>       \* get(e) ?? []
MapSet(m, e, list) == [x \in DOMAIN m \cup {e} |-> IF x = e THEN list ELSE m[x]]
\* A bug Map.delete's caller could have: the entry is kept, with an empty array.
MapKeepEmpty(m, e) == MapSet(m, e, <<>>)
MapDelete(m, e) == [x \in DOMAIN m \ {e} |-> m[x]]

\* A bug executeHandlers could have: it takes the array out of the Map.
MapTake(m, e) == [x \in DOMAIN m \ {e} |-> m[x]]

\* this.handlers.get(payload.event) (167): the Map after the lookup.
MapAfterGet(m, e) == m


\* A bug off could have: every handler of the event is dropped when one matches.
FilterClearsOnMatch(list, handler) ==
    [items |-> IF \E i \in DOMAIN list : list[i] = handler THEN <<>> ELSE list,
     sameObject |-> FALSE]

\* A bug on could have: a handler already in the array is not added again.
SpreadDedup(existingHandlers, handler) ==
    [items |-> IF \E i \in DOMAIN existingHandlers : existingHandlers[i] = handler
               THEN existingHandlers ELSE Append(existingHandlers, handler),
     sameObject |-> FALSE]

\* A bug off could have: the handler is spliced out of the registered array itself.
FilterInPlace(list, handler) ==
    [items |-> SelectSeq(list, LAMBDA h : h # handler), sameObject |-> TRUE]

\* handlers.filter((h) => h !== handler) (186)
Filter(list, handler) ==
    [items |-> SelectSeq(list, LAMBDA h : h # handler), sameObject |-> FALSE]

\* [...existingHandlers, handler] (53)
Spread(existingHandlers, handler) ==
    [items |-> Append(existingHandlers, handler), sameObject |-> FALSE]

\* The calls after the Map's array for `event` became `array`.
Rebind(cs, event, array) ==
    [c \in DOMAIN cs |->
        IF cs[c].pc = "mapping" /\ cs[c].aliased /\ cs[c].payload.event = event
        THEN IF array.sameObject THEN [cs[c] EXCEPT !.held = array.items]
                                 ELSE [cs[c] EXCEPT !.aliased = FALSE]
        ELSE cs[c]]

\* The calls after the Map dropped its entries for `events`.
Unbind(cs, events) ==
    [c \in DOMAIN cs |->
        IF cs[c].payload.event \in events THEN [cs[c] EXCEPT !.aliased = FALSE] ELSE cs[c]]

\* on (51-55), on a state st = [handlers, calls].
on(st, event, handler) ==
    LET existingHandlers == MapGetOrEmpty(st.handlers, event)
        array == Spread(existingHandlers, handler)
    IN  [handlers |-> MapSet(st.handlers, event, array.items),
         calls |-> IF MapHas(st.handlers, event) THEN Rebind(st.calls, event, array)
                   ELSE st.calls]

\* onAll (60-78): on for each element of its array, in order.
RECURSIVE onEach(_, _, _)
onEach(st, events, handler) ==
    IF events = <<>> THEN st
    ELSE onEach(on(st, Head(events), handler), Tail(events), handler)

onAll(st, handler) == onEach(st, OnAllEvents, handler)

\* off (180-194)
off(st, event, handler) ==
    IF ~MapHas(st.handlers, event) THEN st
    ELSE LET filtered == Filter(st.handlers[event], handler)
         IN  IF Len(filtered.items) = 0
             THEN [handlers |-> MapDelete(st.handlers, event),
                   calls |-> IF filtered.sameObject
                             THEN Unbind(Rebind(st.calls, event, filtered), {event})
                             ELSE Unbind(st.calls, {event})]
             ELSE [handlers |-> MapSet(st.handlers, event, filtered.items),
                   calls |-> Rebind(st.calls, event, filtered)]

\* A bug removeAllListeners could have: the argument is ignored.
removeAllListenersClearsAll(st, event) ==
    [handlers |-> [e \in {} |-> <<>>],
     calls |-> [c \in DOMAIN st.calls |-> [st.calls[c] EXCEPT !.aliased = FALSE]]]

\* removeAllListeners (199-206); `event` is AbsentEvent when the argument is omitted.
removeAllListeners(st, event) ==
    IF event.present
    THEN [handlers |-> MapDelete(st.handlers, event.v),
          calls |-> Unbind(st.calls, {event.v})]
    ELSE [handlers |-> EmptyMap,
          calls |-> Unbind(st.calls, DOMAIN st.handlers)]

\* getRegisteredEvents (211-213), as a set
getRegisteredEvents == DOMAIN handlers

(***************************************************************************)
(* processWebhook calls.  pc: "idle" (not called), "mapping" (inside        *)
(* handlers.map, the synchronous fan-out), "awaiting" (at await             *)
(* Promise.all), "resolved", "rejected".  invoked and results list, in      *)
(* order, the handlers called and what each returned: "fulfilled" (no       *)
(* promise, or a fulfilled one), "pending", "rejected", "threw".  snapshot  *)
(* records the Map's array for the event as it was when executeHandlers     *)
(* read it.                                                                 *)
(***************************************************************************)
IdleCall ==
    [pc |-> "idle", body |-> 0, sig |-> SigInput("missing", <<>>, 0),
     now |-> 0, nowRead |-> FALSE, error |-> NoError, payload |-> NoPayload,
     held |-> <<>>, aliased |-> FALSE, len |-> 0, idx |-> 0,
     snapshot |-> <<>>, invoked |-> <<>>, results |-> <<>>]

Mapping == \E c \in DOMAIN calls : calls[c].pc = "mapping"

\* A bug executeHandlers could have: it goes on when the first handler is done.
promiseAllFirstFulfilled(results) ==
    IF \E i \in DOMAIN results : results[i] = "rejected" THEN "rejected"
    ELSE IF \E i \in DOMAIN results : results[i] = "fulfilled" THEN "fulfilled"
    ELSE "pending"

\* Promise.all over the values the handlers returned.
promiseAll(results) ==
    IF \E i \in DOMAIN results : results[i] = "rejected" THEN "rejected"
    ELSE IF \A i \in DOMAIN results : results[i] = "fulfilled" THEN "fulfilled"
    ELSE "pending"

\* The call after handlers.map has returned: await Promise.all(...) (174).
Joined(call) ==
    LET done == [call EXCEPT !.held = <<>>, !.aliased = FALSE]
    IN  IF promiseAll(call.results) = "fulfilled" THEN [done EXCEPT !.pc = "resolved"]
        ELSE [done EXCEPT !.pc = "awaiting"]

\* processWebhook up to the first handler (131-160, 166-171).
startCall(rawPayload, input, now) ==
    LET out == processWebhookChecks(rawPayload, SignatureHeader(input, rawPayload), now)
        base == [IdleCall EXCEPT !.body = rawPayload, !.sig = input,
                                 !.now = IF out.nowRead THEN now ELSE 0,
                                 !.nowRead = out.nowRead]
        present == MapHas(handlers, out.payload.event)
        list == MapGetOrEmpty(handlers, out.payload.event)
    IN  IF out.error # NoError
        THEN [base EXCEPT !.pc = "rejected", !.error = out.error]
        ELSE IF Len(list) = 0
        THEN [base EXCEPT !.pc = "resolved", !.payload = out.payload]
        ELSE [base EXCEPT !.pc = "mapping", !.payload = out.payload,
                          !.held = list, !.aliased = present,
                          !.len = Len(list), !.snapshot = list]

\* A bug executeHandlers could have: it calls the handlers last to first.
mapStepReverse(call, behaviour) ==
    LET i == call.idx + 1
        visited == [call EXCEPT !.idx = i]
    IN  IF i > Len(call.held)
        THEN IF i = call.len THEN Joined(visited) ELSE visited
        ELSE LET h == call.held[Len(call.held) + 1 - i]
                 called == [visited EXCEPT !.invoked = Append(@, h)]
             IN  IF behaviour = "throws"
                 THEN [called EXCEPT !.results = Append(@, "threw"),
                                     !.pc = "rejected", !.error = HandlerFailure(h),
                                     !.held = <<>>, !.aliased = FALSE]
                 ELSE LET returned ==
                              [called EXCEPT !.results =
                                  Append(@, IF behaviour = "returns" THEN "fulfilled"
                                            ELSE "pending")]
                      IN  IF i = call.len THEN Joined(returned) ELSE returned

\* One element of handlers.map((handler) => handler(payload)) (174).  map visits
\* the indexes below the length it read at the start and skips an index the
\* array no longer has.  A handler that throws ends map, and the call rejects.
mapStep(call, behaviour) ==
    LET i == call.idx + 1
        visited == [call EXCEPT !.idx = i]
    IN  IF i > Len(call.held)
        THEN IF i = call.len THEN Joined(visited) ELSE visited
        ELSE LET h == call.held[i]
                 called == [visited EXCEPT !.invoked = Append(@, h)]
             IN  IF behaviour = "throws"
                 THEN [called EXCEPT !.results = Append(@, "threw"),
                                     !.pc = "rejected", !.error = HandlerFailure(h),
                                     !.held = <<>>, !.aliased = FALSE]
                 ELSE LET returned ==
                              [called EXCEPT !.results =
                                  Append(@, IF behaviour = "returns" THEN "fulfilled"
                                            ELSE "pending")]
                      IN  IF i = call.len THEN Joined(returned) ELSE returned

\* A handler's promise settles; a call at await Promise.all goes on when that
\* settles Promise.all.
settle(call, i, outcome) ==
    LET after == [call EXCEPT !.results[i] = outcome]
        all == promiseAll(after.results)
    IN  IF call.pc # "awaiting" THEN after
        ELSE IF all = "rejected"
        THEN [after EXCEPT !.pc = "rejected", !.error = HandlerFailure(call.invoked[i])]
        ELSE IF all = "fulfilled" THEN [after EXCEPT !.pc = "resolved"]
        ELSE after

(***************************************************************************)
(* Inputs of the model.                                                    *)
(***************************************************************************)
AbsentFlag == [present |-> FALSE, v |-> FALSE]
AbsentEvent == [present |-> FALSE, v |-> "none"]
CfgIn(secret, maxAge, validateTimestamp) ==
    [secret |-> secret, maxAge |-> maxAge, validateTimestamp |-> validateTimestamp]

ConfigInputs ==
    {CfgIn(SecretK, Absent, AbsentFlag),
     CfgIn(SecretK, Given(1), Given(TRUE)),
     CfgIn(SecretK, Absent, Given(FALSE))}
        \cup {CfgIn(s, Absent, AbsentFlag) : s \in BlankSecrets}

\* The clock readings tried against the catalogue's timestamp: one millisecond
\* early, equal, at the end of the window, and past it by 1 ms and by 1 s.
NowChoices ==
    {EventTimeMs - 1, EventTimeMs,
     EventTimeMs + config.maxAge * MsPerSecond,
     EventTimeMs + config.maxAge * MsPerSecond + 1,
     EventTimeMs + (config.maxAge + 1) * MsPerSecond}

\* The clock is read only for a body that parses: any other is tried with one reading.
ClockReadings(body) ==
    IF Bodies[body].json /\ WebhookEventPayloadSchema(Bodies[body].value).ok
    THEN NowChoices ELSE {EventTimeMs}

OtherBody(body) == IF body = 1 THEN Len(Bodies) - 1 ELSE 1

\* The headers tried with a body in processWebhook.
CallSigInputs(body) ==
    {SigInput("signed", config.secret, body),
     SigInput("signed", SecretS, body),
     SigInput("signed", config.secret, OtherBody(body)),
     SigInput("invalid", <<>>, 0),
     SigInput("missing", <<>>, 0),
     SigInput("flip", <<>>, 0)}

Behaviours == {"returns", "promise", "throws"}

NoProbe ==
    [called |-> FALSE, payload |-> 0, sig |-> SigInput("missing", <<>>, 0),
     result |-> Returned(FALSE)]

(***************************************************************************)
(* CodegenBridge (codegen-bridge/src/codegen-bridge.ts, types in           *)
(* unnamed/part_004).  The Python process is the environment: a check      *)
(* succeeds or fails, and executor.execute throws, reports a failure,      *)
(* returns data AgentTaskSchema refuses, or returns a task.  Date.now() is *)
(* assumed not to go backwards.                                             *)
(***************************************************************************)
AgentStatusSchema == {"queued", "running", "completed", "failed", "cancelled"}
TerminalStatuses == {"completed", "failed", "cancelled"}       \* 160-164
DefaultTimeout == 300000
DefaultPollInterval == 5000

BridgeCallIds == {1, 2}
BridgeOps ==
    {"initialize", "runAgent", "getTask", "resumeTask", "waitForCompletion", "getTaskResult"}

\* An AgentTask: its status and its result (a string, null, or absent).
JUndefined == [t |-> "undefined"]
Task(status, result) == [status |-> status, result |-> result]
NoTask == Task("none", JUndefined)
TaskResults == {JString("done"), JString(""), JNull, JUndefined}

\* task.result || null (202)
OrNull(result) == IF result.t = "string" /\ result.v # "" THEN result ELSE JNull

NoBridgeError == [class |-> "none", code |-> "none"]
CodegenBridgeError(code) == [class |-> "CodegenBridgeError", code |-> code]
ZodError == [class |-> "ZodError", code |-> "none"]
CallbackError == [class |-> "Error", code |-> "none"]
\* What executor.execute rejects with before its try block is entered (317-323)
TypeError == [class |-> "TypeError", code |-> "ERR_INVALID_ARG_TYPE"]
SystemError == [class |-> "Error", code |-> "EACCES"]

\* WaitOptionsSchema.parse(options || {}) (148; part_004 67-71)
WaitIn(timeout, pollInterval, onProgress) ==
    [timeout |-> timeout, pollInterval |-> pollInterval, onProgress |-> onProgress]
NoWaitOptions == [ok |-> FALSE, timeout |-> 0, pollInterval |-> 0, onProgress |-> FALSE]
WaitOptionsSchema(options) ==
    IF \/ (options.timeout.present /\ options.timeout.v <= 0)
       \/ (options.pollInterval.present /\ options.pollInterval.v <= 0)
    THEN NoWaitOptions
    ELSE [ok |-> TRUE,
          timeout |-> OrDefault(options.timeout, DefaultTimeout),
          pollInterval |-> OrDefault(options.pollInterval, DefaultPollInterval),
          onProgress |-> options.onProgress]

\* The argument of a call: whether AgentRunInputSchema / ResumeTaskInputSchema
\* accepts it (63, 116), and the options of waitForCompletion.
BridgeInput(valid, options) == [valid |-> valid, options |-> options]
NoBridgeInput == BridgeInput(TRUE, WaitIn(Absent, Absent, FALSE))

IdleBridgeCall ==
    [op |-> "none", pc |-> "idle", input |-> NoBridgeInput,
     sawInitialized |-> FALSE,      \* this.initialized when the call began
     ran |-> 0,                     \* the availability checks this call started
     options |-> NoWaitOptions, startTime |-> 0, wakeAt |-> 0,
     polls |-> 0,                   \* getTask calls made by waitForCompletion
     last |-> NoTask,               \* the task the last getTask returned (NoTask: it threw)
     polledAt |-> 0,                \* Date.now() when it returned
     progress |-> "none",           \* what the last onProgress call did
     error |-> NoBridgeError,
     returned |-> "none", task |-> NoTask, result |-> JUndefined]

Reject(call, e) == [call EXCEPT !.pc = "rejected", !.error = e]
ResolveVoid(call) == [call EXCEPT !.pc = "resolved", !.returned = "void"]
ResolveTask(call, task) == [call EXCEPT !.pc = "resolved", !.returned = "task", !.task = task]
ResolveResult(call, result) ==
    [call EXCEPT !.pc = "resolved", !.returned = "result", !.result = result]

\* A bug initialize could have: no early return when already initialized.
initializeSkipsNever(flag) == FALSE

\* if (this.initialized) return; (37)
initializeSkips(flag) == flag

\* if (!this.initialized) await this.initialize(); (52-54)
ensureInitializedCalls(flag) == ~flag

\* Whether a call of `op` starts the availability checks.
RunsChecks(op, flag) ==
    IF op = "initialize" THEN ~initializeSkips(flag)
    ELSE ensureInitializedCalls(flag) /\ ~initializeSkips(flag)

\* The call once initialization is behind it: the method's code up to its first
\* executor.execute.
AfterInit(call, now) ==
    CASE call.op = "initialize" -> ResolveVoid(call)
      [] call.op \in {"runAgent", "resumeTask"} ->
            IF call.input.valid THEN [call EXCEPT !.pc = "execute"] ELSE Reject(call, ZodError)
      [] call.op \in {"getTask", "getTaskResult"} -> [call EXCEPT !.pc = "execute"]
      [] call.op = "waitForCompletion" ->
            LET waitOptions == WaitOptionsSchema(call.input.options)
            IN  IF ~waitOptions.ok THEN Reject(call, ZodError)
                ELSE [call EXCEPT !.options = waitOptions, !.startTime = now,
                                  !.pc = "execute", !.polls = 1]

\* What executor.execute and lines 76-83 / 100-107 / 129-136 make of the process.
ExecOutcome(kind, task) == [kind |-> kind, task |-> task]
ExecFailures ==
    {ExecOutcome(k, NoTask) : k \in {"threw", "uncaught", "noDir", "failure", "badData"}}
ExecError(outcome) ==
    CASE outcome.kind = "threw" -> CodegenBridgeError("API_ERROR")
      [] outcome.kind = "uncaught" -> TypeError
      [] outcome.kind = "noDir" -> SystemError
      [] outcome.kind = "failure" -> CodegenBridgeError("API_ERROR")
      [] outcome.kind = "badData" -> ZodError
      [] OTHER -> NoBridgeError

\* A bug getTaskResult could have: the status is not looked at.
getTaskResultAnyStatus(call, task) ==
    ResolveResult([call EXCEPT !.last = task], OrNull(task.result))

\* getTaskResult after getTask returned (195-202)
getTaskResult(call, task) ==
    LET got == [call EXCEPT !.last = task]
    IN  IF task.status # "completed" THEN Reject(got, CodegenBridgeError("API_ERROR"))
        ELSE ResolveResult(got, OrNull(task.result))

\* A bug waitForCompletion could have: a failed task is returned like the others.
waitForCompletionReturnsFailed(call, task, progress, now) ==
    LET seen == [call EXCEPT !.last = task, !.polledAt = now,
                             !.progress = IF call.options.onProgress THEN progress ELSE "none"]
    IN  IF call.options.onProgress /\ progress = "throws" THEN Reject(seen, CallbackError)
        ELSE IF task.status \in TerminalStatuses THEN ResolveTask(seen, task)
        ELSE IF now - call.startTime > call.options.timeout
             THEN Reject(seen, CodegenBridgeError("TIMEOUT"))
        ELSE [seen EXCEPT !.pc = "sleeping", !.wakeAt = now + call.options.pollInterval]

\* A bug waitForCompletion could have: the timeout is never looked at.
waitForCompletionNoTimeout(call, task, progress, now) ==
    LET seen == [call EXCEPT !.last = task, !.polledAt = now,
                             !.progress = IF call.options.onProgress THEN progress ELSE "none"]
    IN  IF call.options.onProgress /\ progress = "throws" THEN Reject(seen, CallbackError)
        ELSE IF task.status \in TerminalStatuses
             THEN IF task.status = "failed"
                  THEN Reject(seen, CodegenBridgeError("TASK_FAILED"))
                  ELSE ResolveTask(seen, task)
        ELSE [seen EXCEPT !.pc = "sleeping", !.wakeAt = now + call.options.pollInterval]

\* One turn of the loop of waitForCompletion after getTask returned (154-185):
\* the callback, the terminal statuses, the timeout, the timer.
waitForCompletion(call, task, progress, now) ==
    LET seen == [call EXCEPT !.last = task, !.polledAt = now,
                             !.progress = IF call.options.onProgress THEN progress ELSE "none"]
    IN  IF call.options.onProgress /\ progress = "throws" THEN Reject(seen, CallbackError)
        ELSE IF task.status \in TerminalStatuses
             THEN IF task.status = "failed"
                  THEN Reject(seen, CodegenBridgeError("TASK_FAILED"))
                  ELSE ResolveTask(seen, task)
        ELSE IF now - call.startTime > call.options.timeout
             THEN Reject(seen, CodegenBridgeError("TIMEOUT"))
        ELSE [seen EXCEPT !.pc = "sleeping", !.wakeAt = now + call.options.pollInterval]

Max(a, b) == IF a >= b THEN a ELSE b

BridgeInit ==
    /\ initialized = FALSE
    /\ checks = [checkPython |-> 0, checkCodegenInstalled |-> 0]
    /\ bridgeCalls = [c \in BridgeCallIds |-> IdleBridgeCall]
    /\ clock = 0

webhookVars == <<config, handlers, calls, probe>>

\* A method of the bridge is called: its code up to its first await that waits.
BridgeCall(c, op, input) ==
    /\ bridgeCalls[c].pc = "idle"
    /\ LET call == [IdleBridgeCall EXCEPT !.op = op, !.input = input,
                                          !.sawInitialized = initialized]
       IN  IF RunsChecks(op, initialized)
           THEN /\ bridgeCalls' = [bridgeCalls EXCEPT
                                      ![c] = [call EXCEPT !.pc = "checkPython", !.ran = 1]]
                /\ checks' = [checks EXCEPT !.checkPython = @ + 1]
           ELSE /\ bridgeCalls' = [bridgeCalls EXCEPT ![c] = AfterInit(call, clock)]
                /\ UNCHANGED checks
    /\ UNCHANGED <<initialized, clock>>
    /\ UNCHANGED <<webhookVars, utilVars>>

\* executor.checkPython settles (39, 273-286).
CheckPythonSettles(c, ok) ==
    /\ bridgeCalls[c].pc = "checkPython"
    /\ IF ok
       THEN /\ bridgeCalls' = [bridgeCalls EXCEPT ![c].pc = "checkCodegenInstalled",
                                                  ![c].ran = @ + 1]
            /\ checks' = [checks EXCEPT !.checkCodegenInstalled = @ + 1]
       ELSE /\ bridgeCalls' = [bridgeCalls EXCEPT
                                  ![c] = Reject(@, CodegenBridgeError("PYTHON_NOT_FOUND"))]
            /\ UNCHANGED checks
    /\ UNCHANGED <<initialized, clock>>
    /\ UNCHANGED <<webhookVars, utilVars>>

\* executor.checkCodegenInstalled settles (40-41, 291-307).
CheckCodegenSettles(c, ok) ==
    /\ bridgeCalls[c].pc = "checkCodegenInstalled"
    /\ IF ok
       THEN /\ initialized' = TRUE
            /\ bridgeCalls' = [bridgeCalls EXCEPT ![c] = AfterInit(@, clock)]
       ELSE /\ bridgeCalls' = [bridgeCalls EXCEPT
                                  ![c] = Reject(@, CodegenBridgeError("CODEGEN_NOT_INSTALLED"))]
            /\ UNCHANGED initialized
    /\ UNCHANGED <<checks, clock>>
    /\ UNCHANGED <<webhookVars, utilVars>>

\* executor.execute settles, `took` ms after the last step; the method goes on
\* to its end or, in waitForCompletion, to the timer.
ExecuteSettles(c, outcome, took, progress) ==
    /\ bridgeCalls[c].pc = "execute"
    /\ clock' = clock + took
    /\ LET call == bridgeCalls[c]
           after ==
               IF outcome.kind # "task"
               THEN Reject([call EXCEPT !.last = NoTask], ExecError(outcome))
               ELSE CASE call.op = "getTaskResult" -> getTaskResult(call, outcome.task)
                      [] call.op = "waitForCompletion" ->
                            waitForCompletion(call, outcome.task, progress, clock')
                      [] OTHER -> ResolveTask(call, outcome.task)
       IN  bridgeCalls' = [bridgeCalls EXCEPT ![c] = after]
    /\ UNCHANGED <<initialized, checks>>
    /\ UNCHANGED <<webhookVars, utilVars>>

\* The timer of waitForCompletion fires, `late` ms after it was due, and the
\* loop calls getTask again (183-185, 152).
TimerFires(c, late) ==
    /\ bridgeCalls[c].pc = "sleeping"
    /\ clock' = Max(clock, bridgeCalls[c].wakeAt) + late
    /\ bridgeCalls' = [bridgeCalls EXCEPT ![c].pc = "execute", ![c].polls = @ + 1]
    /\ UNCHANGED <<initialized, checks>>
    /\ UNCHANGED <<webhookVars, utilVars>>

(***************************************************************************)
(* PythonExecutor.execute (codegen-bridge.ts 312-356).  The file system    *)
(* and the Python process are the environment: mkdir, writeFile and the    *)
(* process succeed or fail.  The temp directory is <tmpdir>/codegen-bridge; *)
(* a script path is named by the Date.now() reading it holds; a script's   *)
(* content is one of Scripts.  Other programs may remove the temp          *)
(* directory (a cleaner of the system's temp files).                       *)
(***************************************************************************)
ExecClockMax == 1
MaxRemovals == 1

ExecIds == {1, 2}
Scripts == {"s1", "s2"}
NoScript == "none"
NoPath == -1
TempDir == "codegen-bridge"
ExecPaths == 0..ExecClockMax

\* fs.promises.mkdir(path, { recursive: true }) (317-319): it rejects, or it
\* fulfils with the first directory it created, undefined when it created none.
mkdir(exists, ok) ==
    IF ~ok THEN [ok |-> FALSE, value |-> "undefined", error |-> SystemError]
    ELSE [ok |-> TRUE, value |-> IF exists THEN "undefined" ELSE TempDir,
          error |-> NoBridgeError]

\* path.join(tempDir, `script_${Date.now()}.py`) (320-323): join throws a
\* TypeError for an argument that is not a string.
join(tempDir, now) ==
    IF tempDir = "undefined" THEN [ok |-> FALSE, path |-> NoPath, error |-> TypeError]
    ELSE [ok |-> TRUE, path |-> now, error |-> NoBridgeError]

\* What the process wrote to stdout, or that it exited non-zero.
ProcessOutcomes == {"exit1", "notJson", "badResult", "result"}

\* The catch clause of execute (346-355) wraps whatever the try block threw.
executeCatch(outcome) == CodegenBridgeError("API_ERROR")

IdleExecution ==
    [pc |-> "idle",             \* "mkdir", "writeFile", "execa", "resolved", "rejected"
     scriptContent |-> NoScript,
     tempDir |-> "unset", scriptPath |-> NoPath,
     spawned |-> FALSE,         \* the Python process was started
     ran |-> NoScript,          \* the content of the file the process read
     error |-> NoBridgeError]

IdleExecutor(exists) ==
    [dir |-> exists,                                \* the temp directory exists
     files |-> [p \in ExecPaths |-> NoScript],      \* its files' contents
     now |-> 0,                                     \* Date.now()
     removals |-> 0,
     calls |-> [c \in ExecIds |-> IdleExecution]]

\* execute past its first await: 320-325, up to await writeFile.
executeAfterMkdir(call, made, now) ==
    IF ~made.ok THEN [call EXCEPT !.pc = "rejected", !.error = made.error]
    ELSE LET joined == join(made.value, now)
             held == [call EXCEPT !.tempDir = made.value]
         IN  IF ~joined.ok THEN [held EXCEPT !.pc = "rejected", !.error = joined.error]
             ELSE [held EXCEPT !.pc = "writeFile", !.scriptPath = joined.path]

\* execute past await execa (333-345): JSON.parse and PythonResultSchema.parse.
executeAfterProcess(call, read, outcome) ==
    LET done == [call EXCEPT !.spawned = TRUE, !.ran = read]
    IN  IF outcome = "result" /\ read # NoScript THEN [done EXCEPT !.pc = "resolved"]
        ELSE [done EXCEPT !.pc = "rejected", !.error = executeCatch(outcome)]

otherThanExecutor == <<config, handlers, calls, probe, initialized, checks, bridgeCalls,
                       clock, client, debouncer, throttler, backoff>>

\* execute is called: it runs to await mkdir (317).
Execute(c, scriptContent) ==
    /\ executor.calls[c].pc = "idle"
    /\ executor' = [executor EXCEPT
                       !.calls[c] = [IdleExecution EXCEPT !.pc = "mkdir",
                                                          !.scriptContent = scriptContent]]
    /\ UNCHANGED otherThanExecutor

\* mkdir settles and execute goes on to await writeFile (317-326).
MkdirSettles(c, ok) ==
    /\ executor.calls[c].pc = "mkdir"
    /\ LET made == mkdir(executor.dir, ok)
       IN  executor' = [executor EXCEPT
                           !.dir = @ \/ ok,
                           !.calls[c] = executeAfterMkdir(@, made, executor.now)]
    /\ UNCHANGED otherThanExecutor

\* writeFile settles (326); execa starts the process (333).  writeFile fails
\* when the directory is gone.
WriteFileSettles(c, ok) ==
    /\ executor.calls[c].pc = "writeFile"
    /\ LET call == executor.calls[c]
       IN  IF ok /\ executor.dir
           THEN executor' = [executor EXCEPT
                                !.files[call.scriptPath] = call.scriptContent,
                                !.calls[c].pc = "execa"]
           ELSE executor' = [executor EXCEPT
                                !.calls[c].pc = "rejected",
                                !.calls[c].error = executeCatch("writeFile")]
    /\ UNCHANGED otherThanExecutor

\* The process reads the file at its script path, runs it and ends (333-345).  A
\* process that finds no file exits non-zero.
ProcessEnds(c, outcome) ==
    /\ executor.calls[c].pc = "execa"
    /\ LET call == executor.calls[c]
       IN  executor' = [executor EXCEPT
                           !.calls[c] = executeAfterProcess(call,
                                            executor.files[call.scriptPath], outcome)]
    /\ UNCHANGED otherThanExecutor

\* A millisecond passes.
ExecTick ==
    /\ executor.now < ExecClockMax
    /\ executor' = [executor EXCEPT !.now = @ + 1]
    /\ UNCHANGED otherThanExecutor

\* Another program removes the temp directory and the files in it.
TempDirRemoved ==
    /\ executor.dir
    /\ executor.removals < MaxRemovals
    /\ executor' = [executor EXCEPT !.dir = FALSE,
                                    !.files = [p \in ExecPaths |-> NoScript],
                                    !.removals = @ + 1]
    /\ UNCHANGED otherThanExecutor

(***************************************************************************)
(* calculateRetryDelay (api/codegen-client.ts 393-400).  Delays are whole  *)
(* numbers of ms, not negative; the products of the model stay far below   *)
(* 2^53, where JavaScript's numbers are exact.                             *)
(***************************************************************************)
MaxAttempt == 6
DefaultBaseDelay == 1000
DefaultMaxDelay == 30000

Min(a, b) == IF a <= b THEN a ELSE b

\* A bug calculateRetryDelay could have: the delay is not capped.
calculateRetryDelayNoCap(attempt, baseDelay, maxDelay) ==
    OrDefault(baseDelay, DefaultBaseDelay) * 2 ^ (attempt - 1)

\* const delay = baseDelay * 2 ** (attempt - 1); return Math.min(delay, maxDelay);
calculateRetryDelay(attempt, baseDelay, maxDelay) ==
    LET delay == OrDefault(baseDelay, DefaultBaseDelay) * 2 ^ (attempt - 1)
    IN  Min(delay, OrDefault(maxDelay, DefaultMaxDelay))

\* The arguments of the calls: attempt counts up from 1; baseDelay and maxDelay
\* are given or left to their defaults.
IdleBackoff(baseDelay, maxDelay) ==
    [attempt |-> 0, baseDelay |-> baseDelay, maxDelay |-> maxDelay,
     value |-> 0,       \* what the call for `attempt` returned
     previous |-> 0]    \* what the call for attempt - 1 returned

otherThanBackoff == <<config, handlers, calls, probe, initialized, checks, bridgeCalls,
                      clock, executor, client, debouncer, throttler>>

\* calculateRetryDelay is called for the next attempt.
CalculateRetryDelay ==
    /\ backoff.attempt < MaxAttempt
    /\ backoff' = [backoff EXCEPT
                      !.attempt = @ + 1,
                      !.previous = backoff.value,
                      !.value = calculateRetryDelay(backoff.attempt + 1,
                                                    backoff.baseDelay, backoff.maxDelay)]
    /\ UNCHANGED otherThanBackoff

(***************************************************************************)
(* debounce (api/codegen-client.ts 412-428).  The closure holds timeoutId; *)
(* a timer is named by the time it is due and carries the arguments of the *)
(* call that set it.  Node runs a timer's callback when the event loop     *)
(* reaches it, at the due time or later; it treats a delay below 1 ms as   *)
(* 1 ms.  The record also keeps what a caller can observe: the calls, the  *)
(* invocations of func, and how the calls fall into groups.                *)
(***************************************************************************)
DebounceClockMax == 5
MaxDebounceCalls == 3
MinTimerDelay == 1

NoTimer == -1
DebounceArgs == {"a", "b"}

\* setTimeout(callback, wait) at `now`: when the timer is due.
setTimeout(wait, now) == now + Max(wait, MinTimerDelay)

\* A bug debounced could have: a pending timer is left as it is.
debouncedNoRestart(closure, args, wait, now) ==
    IF closure.timeoutId # NoTimer THEN [closure EXCEPT !.args = args]
    ELSE [timeoutId |-> setTimeout(wait, now), args |-> args]

\* function debounced(...args) (415-427): clearTimeout, then setTimeout.
debounced(closure, args, wait, now) ==
    [timeoutId |-> setTimeout(wait, now), args |-> args]

IdleDebouncer(wait) ==
    [wait |-> wait, now |-> 0,
     closure |-> [timeoutId |-> NoTimer, args |-> "none"],
     calls |-> 0, lastCallAt |-> 0, lastArgs |-> "none",
     bursts |-> 0,      \* groups of calls, each less than wait ms after the one before
     runs |-> 0,        \* groups of calls, each made while the timer of the one before is set
     invocations |-> 0, \* calls of func
     sinceLastCall |-> 0,       \* at the last call of func: ms since the last call of debounced
     invokedWith |-> "none"]    \* and its arguments

otherThanDebouncer == <<config, handlers, calls, probe, initialized, checks, bridgeCalls,
                        clock, executor, client, throttler, backoff>>

\* The debounced function is called.
Debounced(args) ==
    /\ debouncer.calls < MaxDebounceCalls
    /\ LET d == debouncer
           newBurst == d.calls = 0 \/ d.now - d.lastCallAt >= d.wait
           newRun == d.closure.timeoutId = NoTimer
       IN  debouncer' = [d EXCEPT
               !.closure = debounced(d.closure, args, d.wait, d.now),
               !.calls = @ + 1, !.lastCallAt = d.now, !.lastArgs = args,
               !.bursts = IF newBurst THEN @ + 1 ELSE @,
               !.runs = IF newRun THEN @ + 1 ELSE @]
    /\ UNCHANGED otherThanDebouncer

\* The timer's callback runs (421-424): func(...args); timeoutId = null.
DebounceTimerFires ==
    /\ debouncer.closure.timeoutId # NoTimer
    /\ debouncer.now >= debouncer.closure.timeoutId
    /\ debouncer' = [debouncer EXCEPT
           !.closure = [timeoutId |-> NoTimer, args |-> "none"],
           !.invocations = @ + 1,
           !.sinceLastCall = debouncer.now - debouncer.lastCallAt,
           !.invokedWith = debouncer.closure.args]
    /\ UNCHANGED otherThanDebouncer

\* A millisecond passes, whether or not a timer is due.
DebounceTick ==
    /\ debouncer.now < DebounceClockMax
    /\ debouncer' = [debouncer EXCEPT !.now = @ + 1]
    /\ UNCHANGED otherThanDebouncer

(***************************************************************************)
(* throttle (api/codegen-client.ts 433-447).  The closure holds lastCall,  *)
(* which starts at 0.  Date.now() is a reading of the Unix clock, far      *)
(* above any wait, and is assumed not to go backwards.  The record also    *)
(* keeps what a caller can observe: the calls and the invocations of func. *)
(***************************************************************************)
ThrottleClockMax == 5
MaxThrottleCalls == 4
ThrottleStart == EventTimeMs        \* Date.now() when throttle() is called

\* A bug throttled could have: lastCall is never updated.
throttledNoUpdate(lastCall, wait, now) ==
    IF now - lastCall >= wait THEN [lastCall |-> lastCall, invoked |-> TRUE]
    ELSE [lastCall |-> lastCall, invoked |-> FALSE]

\* function throttled(...args) (439-446)
throttled(lastCall, wait, now) ==
    IF now - lastCall >= wait THEN [lastCall |-> now, invoked |-> TRUE]
    ELSE [lastCall |-> lastCall, invoked |-> FALSE]

IdleThrottler(wait) ==
    [wait |-> wait, now |-> ThrottleStart,
     lastCall |-> 0,
     calls |-> 0,
     invocations |-> 0,         \* calls of func
     firstInvoked |-> FALSE,    \* the first call of throttled called func
     invokedAt |-> 0,           \* Date.now() at the last call of func
     minGap |-> -1,             \* least time between two successive calls of func
     callGap |-> 0,             \* at the last call of throttled: ms since func was called
     callInvoked |-> FALSE]     \* and whether it called func

otherThanThrottler == <<config, handlers, calls, probe, initialized, checks, bridgeCalls,
                        clock, executor, client, debouncer, backoff>>

\* The throttled function is called.
Throttled ==
    /\ throttler.calls < MaxThrottleCalls
    /\ LET t == throttler
           out == throttled(t.lastCall, t.wait, t.now)
           gap == t.now - t.invokedAt
       IN  throttler' = [t EXCEPT
               !.lastCall = out.lastCall,
               !.calls = @ + 1,
               !.invocations = IF out.invoked THEN @ + 1 ELSE @,
               !.firstInvoked = IF t.calls = 0 THEN out.invoked ELSE @,
               !.invokedAt = IF out.invoked THEN t.now ELSE @,
               !.minGap = IF out.invoked /\ t.invocations >= 1
                          THEN (IF @ = -1 THEN gap ELSE Min(@, gap)) ELSE @,
               !.callGap = IF t.invocations >= 1 THEN gap ELSE 0,
               !.callInvoked = out.invoked]
    /\ UNCHANGED otherThanThrottler

\* A millisecond passes.
ThrottleTick ==
    /\ throttler.now < ThrottleStart + ThrottleClockMax
    /\ throttler' = [throttler EXCEPT !.now = @ + 1]
    /\ UNCHANGED otherThanThrottler

(***************************************************************************)
(* CodegenClient (api/codegen-client.ts): the retry configuration (64-71), *)
(* invokeAgent (95-110), retryRequest (208-234) and handleAxiosError       *)
(* (239-266).  The server and the network are the environment: a request   *)
(* gets a 2xx response whose body the response schema accepts or refuses,  *)
(* a response with an error status, no response, or is never sent.         *)
(***************************************************************************)
DefaultRetryAttempts == 3
DefaultRetryDelay == 1000
ServerErrorFloor == 500

NoStatus == 0
RequestFailures == {"noResponse", "setup", "http404", "http503", "schema"}
RequestOutcomes == {"ok"} \cup RequestFailures

NoClientError == [class |-> "none", code |-> "none", statusCode |-> NoStatus]
CodegenApiError(code, statusCode) ==
    [class |-> "CodegenApiError", code |-> code, statusCode |-> statusCode]
ClientZodError == [class |-> "ZodError", code |-> "none", statusCode |-> NoStatus]

\* handleAxiosError (239-266), by way of the response interceptor (83-88).
handleAxiosError(failure) ==
    CASE failure = "http404" -> CodegenApiError("HTTP_404", 404)
      [] failure = "http503" -> CodegenApiError("HTTP_503", 503)
      [] failure = "noResponse" -> CodegenApiError("NO_RESPONSE", NoStatus)
      [] OTHER -> CodegenApiError("REQUEST_SETUP_ERROR", NoStatus)

\* What requestFn throws (101-108): the interceptor's error, or the ZodError of
\* responseSchema.parse(response.data).
requestError(failure) ==
    IF failure = "schema" THEN ClientZodError ELSE handleAxiosError(failure)

\* A bug retryRequest could have: it gives up one attempt late.
retryGivesUpLate(attempt, attempts) == attempt > attempts

\* if (attempt >= this.retryConfig.attempts) throw error; (215-217)
retryGivesUp(attempt, attempts) == attempt >= attempts

\* error instanceof CodegenApiError && error.statusCode && error.statusCode < 500
\* (220-224)
notRetried(error) ==
    /\ error.class = "CodegenApiError"
    /\ error.statusCode # NoStatus
    /\ error.statusCode < ServerErrorFloor

\* this.retryConfig.delay * 2 ** (attempt - 1) (229)
retryDelayOf(delay, attempt) == delay * 2 ^ (attempt - 1)

\* new CodegenClient(config) (64-71), for a config the schema accepts.
IdleClient(retryAttempts, retryDelay) ==
    [attempts |-> OrDefault(retryAttempts, DefaultRetryAttempts),
     delay |-> OrDefault(retryDelay, DefaultRetryDelay),
     pc |-> "idle",         \* "request", "sleeping", "resolved", "rejected"
     attempt |-> 0,         \* the attempt parameter of the running retryRequest
     requests |-> 0,        \* calls of requestFn
     failures |-> <<>>,     \* how they failed, in order
     delays |-> <<>>,       \* the delays of the timers set, in order
     error |-> NoClientError]

\* retryRequest past `await requestFn()` (212-233).
retryRequest(st, outcome) ==
    IF outcome = "ok" THEN [st EXCEPT !.pc = "resolved"]
    ELSE LET error == requestError(outcome)
             failed == [st EXCEPT !.failures = Append(@, outcome)]
         IN  IF retryGivesUp(st.attempt, st.attempts) \/ notRetried(error)
             THEN [failed EXCEPT !.pc = "rejected", !.error = error]
             ELSE [failed EXCEPT !.pc = "sleeping",
                                 !.delays = Append(@, retryDelayOf(st.delay, st.attempt))]

otherThanClient == <<config, handlers, calls, probe, initialized, checks, bridgeCalls,
                     clock, executor, debouncer, throttler, backoff>>

\* invokeAgent is called (95-100): the request is validated, then retryRequest
\* calls requestFn for the first time.
InvokeAgent(valid) ==
    /\ client.pc = "idle"
    /\ client' = IF valid THEN [client EXCEPT !.pc = "request", !.attempt = 1, !.requests = 1]
                 ELSE [client EXCEPT !.pc = "rejected", !.error = ClientZodError]
    /\ UNCHANGED otherThanClient

\* requestFn settles.
RequestSettles(outcome) ==
    /\ client.pc = "request"
    /\ client' = retryRequest(client, outcome)
    /\ UNCHANGED otherThanClient

\* The backoff timer fires (230): retryRequest(requestFn, attempt + 1) (232).
RetryTimerFires ==
    /\ client.pc = "sleeping"
    /\ client' = [client EXCEPT !.pc = "request", !.attempt = @ + 1, !.requests = @ + 1]
    /\ UNCHANGED otherThanClient

(***************************************************************************)
(* The state of the remaining components before their first call.          *)
(***************************************************************************)
UtilInit ==
    /\ executor = IdleExecutor(FALSE)
    /\ client = IdleClient(Absent, Absent)
    /\ debouncer = IdleDebouncer(1)
    /\ throttler = IdleThrottler(0)
    /\ backoff = IdleBackoff(Absent, Absent)

(***************************************************************************)
(* The state after new WebhookHandler(cfg).                                *)
(***************************************************************************)
Init ==
    /\ config \in {constructor(CfgIn(s, Absent, AbsentFlag)) : s \in {SecretK} \cup BlankSecrets}
    /\ handlers = EmptyMap
    /\ calls = [c \in CallIds |-> IdleCall]
    /\ probe = NoProbe
    /\ BridgeInit
    /\ UtilInit

\* JavaScript runs a synchronous section to its end: while a call is inside
\* handlers.map, the only other code that runs is the handler just invoked.
MayRun == config.ok /\ \A c \in DOMAIN calls : calls[c].pc = "mapping" => calls[c].idx >= 1

On(event, handler) ==
    /\ MayRun
    /\ Len(MapGetOrEmpty(handlers, event)) < MaxList
    /\ LET st == on([handlers |-> handlers, calls |-> calls], event, handler)
       IN  handlers' = st.handlers /\ calls' = st.calls
    /\ UNCHANGED <<config, probe>>
    /\ UNCHANGED <<bridgeVars, utilVars>>

OnAll(handler) ==
    /\ MayRun
    /\ \A i \in DOMAIN OnAllEvents : Len(MapGetOrEmpty(handlers, OnAllEvents[i])) < MaxList
    /\ LET st == onAll([handlers |-> handlers, calls |-> calls], handler)
       IN  handlers' = st.handlers /\ calls' = st.calls
    /\ UNCHANGED <<config, probe>>
    /\ UNCHANGED <<bridgeVars, utilVars>>

Off(event, handler) ==
    /\ MayRun
    /\ LET st == off([handlers |-> handlers, calls |-> calls], event, handler)
       IN  handlers' = st.handlers /\ calls' = st.calls
    /\ UNCHANGED <<config, probe>>
    /\ UNCHANGED <<bridgeVars, utilVars>>

RemoveAllListeners(event) ==
    /\ MayRun
    /\ LET st == removeAllListeners([handlers |-> handlers, calls |-> calls], event)
       IN  handlers' = st.handlers /\ calls' = st.calls
    /\ UNCHANGED <<config, probe>>
    /\ UNCHANGED <<bridgeVars, utilVars>>

\* processWebhook is called: everything it does before the first handler runs.
ProcessWebhook(c, rawPayload, input, now) ==
    /\ config.ok
    /\ ~Mapping
    /\ calls[c].pc = "idle"
    /\ calls' = [calls EXCEPT ![c] = startCall(rawPayload, input, now)]
    /\ handlers' = IF calls'[c].error = NoError
                    THEN MapAfterGet(handlers, calls'[c].payload.event)
                    ELSE handlers
    /\ UNCHANGED <<config, probe>>
    /\ UNCHANGED <<bridgeVars, utilVars>>

\* handlers.map calls the next handler, which returns, returns a promise or throws.
InvokeHandler(c, behaviour) ==
    /\ calls[c].pc = "mapping"
    /\ calls' = [calls EXCEPT ![c] = mapStep(calls[c], behaviour)]
    /\ UNCHANGED <<config, handlers, probe>>
    /\ UNCHANGED <<bridgeVars, utilVars>>

\* The promise a handler returned is fulfilled or rejected.
HandlerSettles(c, i, outcome) ==
    /\ ~Mapping
    /\ calls[c].pc \in {"awaiting", "rejected"}
    /\ i \in DOMAIN calls[c].results
    /\ calls[c].results[i] = "pending"
    /\ calls' = [calls EXCEPT ![c] = settle(calls[c], i, outcome)]
    /\ UNCHANGED <<config, handlers, probe>>
    /\ UNCHANGED <<bridgeVars, utilVars>>

Registration ==
    \/ \E e \in RegEvents, h \in Handlers : On(e, h)
    \/ \E h \in Handlers : OnAll(h)
    \/ \E e \in RegEvents, h \in Handlers : Off(e, h)
    \/ \E e \in {AbsentEvent} \cup {Given(x) : x \in RegEvents} : RemoveAllListeners(e)

Dispatching ==
    \/ \E c \in DOMAIN calls, behaviour \in Behaviours : InvokeHandler(c, behaviour)
    \/ \E c \in DOMAIN calls, i \in 1..MaxList, outcome \in {"fulfilled", "rejected"} :
          HandlerSettles(c, i, outcome)

(***************************************************************************)
(* Spec: registration and dispatch.  Every registry operation, by the      *)
(* handlers of a dispatch and by other code; requests with the bodies of   *)
(* DispatchBodies, well signed or not, at the instant of the timestamp.    *)
(***************************************************************************)
DispatchBodies == {1, 7, Len(Bodies) - 1}

Next ==
    \/ Registration
    \/ \E c \in CallIds, b \in DispatchBodies :
          \E input \in {SigInput("signed", config.secret, b), SigInput("invalid", <<>>, 0)} :
              ProcessWebhook(c, b, input, EventTimeMs)
    \/ Dispatching

Spec == Init /\ [][Next]_vars

(***************************************************************************)
(* SpecIntake: the steps of processWebhook before dispatch.  Every body of *)
(* the catalogue, with the headers of CallSigInputs and the clock readings *)
(* of NowChoices; one handler, registered for every event type by onAll.   *)
(***************************************************************************)
NextIntake ==
    \/ OnAll("h1")
    \/ \E c \in CallIds, b \in BodyIds :
          \E input \in CallSigInputs(b), now \in ClockReadings(b) :
              ProcessWebhook(c, b, input, now)
    \/ Dispatching

InitIntake ==
    /\ config \in {constructor(cfg) : cfg \in ConfigInputs}
    /\ handlers = EmptyMap
    /\ calls = [c \in CallIds |-> IdleCall]
    /\ probe = NoProbe
    /\ BridgeInit
    /\ UtilInit

SpecIntake == InitIntake /\ [][NextIntake]_vars

(***************************************************************************)
(* verifySignature called on its own (it is public), for every secret.     *)
(***************************************************************************)
InitVerify ==
    /\ config \in {constructor(CfgIn(s, Absent, AbsentFlag)) : s \in Secrets}
    /\ handlers = EmptyMap
    /\ calls = [c \in CallIds |-> IdleCall]
    /\ probe = NoProbe
    /\ BridgeInit
    /\ UtilInit

VerifySignature(payload, input) ==
    /\ config.ok
    /\ ~probe.called
    /\ probe' = [called |-> TRUE, payload |-> payload, sig |-> input,
                 result |-> verifySignature(payload, SignatureHeader(input, payload))]
    /\ UNCHANGED <<config, handlers, calls>>
    /\ UNCHANGED <<bridgeVars, utilVars>>

NextVerify == \E payload \in BodyIds, input \in SigInputs : VerifySignature(payload, input)

SpecVerify == InitVerify /\ [][NextVerify]_vars

(***************************************************************************)
(* SpecRegistry: the registry operations alone, called with two event      *)
(* types (onAll and removeAllListeners() reach all nine).                   *)
(***************************************************************************)
RegistryEvents == {"agent.started", "tool.used"}

NextRegistry ==
    \/ \E e \in RegistryEvents, h \in Handlers : On(e, h)
    \/ \E h \in Handlers : OnAll(h)
    \/ \E e \in RegistryEvents, h \in Handlers : Off(e, h)
    \/ \E e \in {AbsentEvent} \cup {Given(x) : x \in RegistryEvents} : RemoveAllListeners(e)

SpecRegistry == Init /\ [][NextRegistry]_vars

(***************************************************************************)
(* SpecBridge: the methods of CodegenBridge, two calls that may overlap,   *)
(* with every outcome of the checks and of the Python process.  healthCheck *)
(* (208-247), which runs the two checks whenever it is called, is left out. *)
(***************************************************************************)
ShortWait == WaitIn(Given(1), Given(1), FALSE)

InputsOf(op) ==
    IF op \in {"runAgent", "resumeTask"}
    THEN {BridgeInput(v, WaitIn(Absent, Absent, FALSE)) : v \in BOOLEAN}
    ELSE IF op = "waitForCompletion" THEN {BridgeInput(TRUE, ShortWait)}
    ELSE {NoBridgeInput}

\* The tasks getTask returns: every status, and for a completed task every result.
ExecTasks ==
    {ExecOutcome("task", Task("completed", r)) : r \in TaskResults}
        \cup {ExecOutcome("task", Task(st, JString("done"))) : st \in AgentStatusSchema}

InitBridge == Init /\ config.ok

NextBridge ==
    \/ \E c \in BridgeCallIds, op \in BridgeOps : \E input \in InputsOf(op) :
          BridgeCall(c, op, input)
    \/ \E c \in BridgeCallIds, ok \in BOOLEAN : CheckPythonSettles(c, ok)
    \/ \E c \in BridgeCallIds, ok \in BOOLEAN : CheckCodegenSettles(c, ok)
    \/ \E c \in BridgeCallIds, outcome \in ExecFailures \cup ExecTasks :
          ExecuteSettles(c, outcome, 0, "returns")
    \/ \E c \in BridgeCallIds : TimerFires(c, 0)

SpecBridge == InitBridge /\ [][NextBridge]_vars

(***************************************************************************)
(* SpecWait: one waitForCompletion call, with the default options, with    *)
(* short ones, with and without a progress callback, and with an interval  *)
(* the schema refuses; getTask and the timer take their time.  Time steps  *)
(* are 1 ms for the short options and half the timeout for the defaults.   *)
(***************************************************************************)
WaitInputs ==
    {WaitIn(Absent, Absent, FALSE),
     WaitIn(Given(2), Given(1), FALSE),
     WaitIn(Given(1), Given(2), TRUE),
     WaitIn(Absent, Given(0), FALSE)}

Tick(call) == IF call.options.timeout = DefaultTimeout THEN DefaultTimeout \div 2 ELSE 1

WaitTasks == {ExecOutcome("task", Task(st, JString("done"))) : st \in AgentStatusSchema}

NextWait ==
    \/ \E options \in WaitInputs : BridgeCall(1, "waitForCompletion", BridgeInput(TRUE, options))
    \/ \E ok \in BOOLEAN : CheckPythonSettles(1, ok)
    \/ \E ok \in BOOLEAN : CheckCodegenSettles(1, ok)
    \/ \E outcome \in ExecFailures \cup WaitTasks, took \in {0, Tick(bridgeCalls[1])},
          progress \in {"returns", "throws"} :
          ExecuteSettles(1, outcome, took, progress)
    \/ \E late \in {0, Tick(bridgeCalls[1])} : TimerFires(1, late)

SpecWait == InitBridge /\ [][NextWait]_vars

(***************************************************************************)
(* SpecExecutor: two calls of PythonExecutor.execute that may overlap,     *)
(* with every outcome of mkdir, writeFile and the process; the temp        *)
(* directory exists at the start or not.                                   *)
(***************************************************************************)
InitExecutor ==
    /\ config = constructor(CfgIn(SecretK, Absent, AbsentFlag))
    /\ handlers = EmptyMap
    /\ calls = [c \in CallIds |-> IdleCall]
    /\ probe = NoProbe
    /\ BridgeInit
    /\ executor \in {IdleExecutor(exists) : exists \in BOOLEAN}
    /\ client = IdleClient(Absent, Absent)
    /\ debouncer = IdleDebouncer(1)
    /\ throttler = IdleThrottler(0)
    /\ backoff = IdleBackoff(Absent, Absent)

NextExecutor ==
    \/ \E c \in ExecIds, scriptContent \in Scripts : Execute(c, scriptContent)
    \/ \E c \in ExecIds, ok \in BOOLEAN : MkdirSettles(c, ok)
    \/ \E c \in ExecIds, ok \in BOOLEAN : WriteFileSettles(c, ok)
    \/ \E c \in ExecIds, outcome \in ProcessOutcomes : ProcessEnds(c, outcome)
    \/ ExecTick
    \/ TempDirRemoved

SpecExecutor == InitExecutor /\ [][NextExecutor]_vars

(***************************************************************************)
(* SpecBackoff: calculateRetryDelay for the attempts 1, 2, ... with the    *)
(* base and maximum delays of BackoffDelays, given or defaulted.           *)
(***************************************************************************)
BackoffDelays == {Absent, Given(0), Given(1), Given(1500), Given(40000)}

InitBackoff ==
    /\ config = constructor(CfgIn(SecretK, Absent, AbsentFlag))
    /\ handlers = EmptyMap
    /\ calls = [c \in CallIds |-> IdleCall]
    /\ probe = NoProbe
    /\ BridgeInit
    /\ executor = IdleExecutor(FALSE)
    /\ client = IdleClient(Absent, Absent)
    /\ debouncer = IdleDebouncer(1)
    /\ throttler = IdleThrottler(0)
    /\ backoff \in {IdleBackoff(b, m) : b \in BackoffDelays, m \in BackoffDelays}

NextBackoff == CalculateRetryDelay

SpecBackoff == InitBackoff /\ [][NextBackoff]_vars

(***************************************************************************)
(* SpecDebounce: a debounced function with wait 1 or 2 ms, called up to    *)
(* MaxDebounceCalls times at any instants; its timer fires when due or     *)
(* later.                                                                  *)
(***************************************************************************)
DebounceWaits == {1, 2}

InitDebounce ==
    /\ config = constructor(CfgIn(SecretK, Absent, AbsentFlag))
    /\ handlers = EmptyMap
    /\ calls = [c \in CallIds |-> IdleCall]
    /\ probe = NoProbe
    /\ BridgeInit
    /\ executor = IdleExecutor(FALSE)
    /\ client = IdleClient(Absent, Absent)
    /\ debouncer \in {IdleDebouncer(wait) : wait \in DebounceWaits}
    /\ throttler = IdleThrottler(0)
    /\ backoff = IdleBackoff(Absent, Absent)

NextDebounce ==
    \/ \E args \in DebounceArgs : Debounced(args)
    \/ DebounceTimerFires
    \/ DebounceTick

SpecDebounce == InitDebounce /\ [][NextDebounce]_vars

(***************************************************************************)
(* SpecThrottle: a throttled function with wait 0, 2 or 3 ms, called up to *)
(* MaxThrottleCalls times at any instants.                                 *)
(***************************************************************************)
ThrottleWaits == {0, 2, 3}

InitThrottle ==
    /\ config = constructor(CfgIn(SecretK, Absent, AbsentFlag))
    /\ handlers = EmptyMap
    /\ calls = [c \in CallIds |-> IdleCall]
    /\ probe = NoProbe
    /\ BridgeInit
    /\ executor = IdleExecutor(FALSE)
    /\ client = IdleClient(Absent, Absent)
    /\ debouncer = IdleDebouncer(1)
    /\ throttler \in {IdleThrottler(wait) : wait \in ThrottleWaits}
    /\ backoff = IdleBackoff(Absent, Absent)

NextThrottle ==
    \/ Throttled
    \/ ThrottleTick

SpecThrottle == InitThrottle /\ [][NextThrottle]_vars

(***************************************************************************)
(* SpecRetry: one invokeAgent call of a client whose retryAttempts is 0,   *)
(* 1, 2, 4 or the default and whose retryDelay is 250 or the default, with *)
(* every outcome of every request.                                         *)
(***************************************************************************)
RetryAttemptsInputs == {Absent, Given(0), Given(1), Given(2), Given(4)}
RetryDelayInputs == {Absent, Given(250)}

InitRetry ==
    /\ config = constructor(CfgIn(SecretK, Absent, AbsentFlag))
    /\ handlers = EmptyMap
    /\ calls = [c \in CallIds |-> IdleCall]
    /\ probe = NoProbe
    /\ BridgeInit
    /\ executor = IdleExecutor(FALSE)
    /\ client \in {IdleClient(a, d) : a \in RetryAttemptsInputs, d \in RetryDelayInputs}
    /\ debouncer = IdleDebouncer(1)
    /\ throttler = IdleThrottler(0)
    /\ backoff = IdleBackoff(Absent, Absent)

NextRetry ==
    \/ \E valid \in BOOLEAN : InvokeAgent(valid)
    \/ \E outcome \in RequestOutcomes : RequestSettles(outcome)
    \/ RetryTimerFires

SpecRetry == InitRetry /\ [][NextRetry]_vars

(***************************************************************************)
(* SpecOverlap: two processWebhook calls that may overlap, well signed or  *)
(* not, on a registry of up to MaxList registrations of one handler; on    *)
(* and off are called by other code and by the handler.                    *)
(***************************************************************************)
OverlapBodies == {1}

NextOverlap ==
    \/ On("agent.started", "h1")
    \/ Off("agent.started", "h1")
    \/ \E c \in TwoCallIds, b \in OverlapBodies :
          \E input \in {SigInput("signed", config.secret, b), SigInput("invalid", <<>>, 0)} :
              ProcessWebhook(c, b, input, EventTimeMs)
    \/ Dispatching

InitOverlap ==
    /\ config = constructor(CfgIn(SecretK, Absent, AbsentFlag))
    /\ handlers = EmptyMap
    /\ calls = [c \in TwoCallIds |-> IdleCall]
    /\ probe = NoProbe
    /\ BridgeInit
    /\ UtilInit

SpecOverlap == InitOverlap /\ [][NextOverlap]_vars

(***************************************************************************)
(* Properties.                                                             *)
(***************************************************************************)
\* The header a call was made with, and the one header its body is signed by.
HeaderOf(k) == SignatureHeader(k.sig, k.body)
ExpectedHeader(k) == Header(Sha256Prefix \o HmacSha256Hex(config.secret, k.body))
WellSigned(k) == HeaderOf(k) = ExpectedHeader(k)
Parses(k) == Bodies[k.body].json /\ WebhookEventPayloadSchema(Bodies[k.body].value).ok
TimestampOf(k) == WebhookEventPayloadSchema(Bodies[k.body].value).out.timestamp
Refused(k, e) == k.pc = "rejected" /\ k.error = e /\ k.invoked = <<>>
Dispatched(k) == k.pc # "idle" /\ k.payload # NoPayload

\* C1: the steps of processWebhook run in the order signature, parse, timestamp,
\* dispatch: a call whose signature check fails is refused with the signature
\* error whatever its body; one that passes it with a body that does not parse
\* is refused with the parse step's error; one that parses with a timestamp the
\* validator refuses is refused with the timestamp error; and a refused call
\* has invoked no handler.
C1_StepsInOrder ==
    \A c \in CallIds :
        LET k == calls[c]
            sigFails == ~verifySignature(k.body, HeaderOf(k)).value
            tsFails == k.nowRead /\ ~validatePayloadTimestamp(TimestampOf(k), k.now)
        IN  k.pc # "idle" =>
              /\ sigFails => Refused(k, SignatureInvalid)
              /\ (~sigFails /\ ~Parses(k)) =>
                    (Refused(k, JsonParseFailed) \/ Refused(k, SchemaViolation))
              /\ (~sigFails /\ Parses(k) /\ tsFails) => Refused(k, TimestampRejected)
              /\ k.invoked # <<>> => (~sigFails /\ Parses(k) /\ ~tsFails)

\* A body that is not JSON, under a wrong signature, refused as a signature
\* error while handlers are registered.
C1_Witness ==
    \E c \in CallIds :
        /\ Refused(calls[c], SignatureInvalid)
        /\ ~Bodies[calls[c].body].json
        /\ ~WellSigned(calls[c])
        /\ handlers # EmptyMap

\* C2: a processWebhook call whose signature header is not exactly
\* "sha256=" + hex(HMAC-SHA256(secret, rawBody)) is rejected with the
\* "Invalid webhook signature" WebhookVerificationError, and the step leaves
\* the handler registry as it was.
C2_InvalidSignatureRejected ==
    [][\A c \in CallIds :
          (calls[c].pc = "idle" /\ calls'[c].pc # "idle" /\ ~WellSigned(calls'[c]))
              => (Refused(calls'[c], SignatureInvalid) /\ handlers' = handlers)]_vars

\* A header of the right length with one wrong digit, refused while handlers
\* are registered.
C2_Witness ==
    \E c \in CallIds :
        /\ calls[c].sig.kind = "flip"
        /\ Refused(calls[c], SignatureInvalid)
        /\ handlers # EmptyMap

\* C3 (as claimed): a correctly signed body that is not JSON, or is JSON the
\* payload schema refuses, fails with the MalformedPayload error, the
\* WebhookVerificationError "Failed to parse webhook payload".
C3_MalformedPayload ==
    \A c \in CallIds :
        (calls[c].pc # "idle" /\ WellSigned(calls[c]) /\ ~Parses(calls[c]))
            => Refused(calls[c], JsonParseFailed)

\* C4: the timestamp check accepts iff validation is disabled or
\* 0 <= now - timestamp <= maxAge seconds; a call it refuses is rejected with
\* the timestamp error and invokes no handler.
C4_TimestampWindow ==
    \A c \in CallIds :
        LET k == calls[c]
            ageMs == k.now - TimestampOf(k)
            fresh == 0 <= ageMs /\ ageMs <= config.maxAge * MsPerSecond
        IN  k.nowRead =>
              /\ Dispatched(k) <=> (~config.validateTimestamp \/ fresh)
              /\ ~Dispatched(k) => Refused(k, TimestampRejected)

\* An event exactly maxAge seconds old, accepted with validation on and
\* delivered to a handler.
C4_Witness ==
    \E c \in CallIds :
        /\ calls[c].nowRead
        /\ config.validateTimestamp
        /\ calls[c].now - TimestampOf(calls[c]) = config.maxAge * MsPerSecond
        /\ calls[c].invoked # <<>>

\* C5 (as claimed): verifySignature returns true for the signature of P under
\* the handler's secret S, and false for the signature of any other payload
\* or under any other secret.
C5_OnlyOwnSignature ==
    (probe.called /\ probe.sig.kind = "signed") =>
        (probe.result.value <=>
            (probe.sig.secret = config.secret /\ probe.sig.body = probe.payload))

\* C5 (amended): verifySignature returns true for the signature of P2 under S2
\* exactly when S2 has the HMAC key of S (the secret's UTF-8 bytes, zero-padded
\* to the block) and P2 has the UTF-8 bytes of P.
C5_SameKeyAndBytes ==
    (probe.called /\ probe.sig.kind = "signed") =>
        /\ ~probe.result.threw
        /\ probe.result.value <=>
              /\ HmacKey(probe.sig.secret) = HmacKey(config.secret)
              /\ Bodies[probe.sig.body].utf8 = Bodies[probe.payload].utf8

\* The signature of the same payload under another secret, refused.
C5_Witness ==
    /\ probe.called
    /\ probe.sig.kind = "signed"
    /\ probe.sig.body = probe.payload
    /\ HmacKey(probe.sig.secret) # HmacKey(config.secret)
    /\ probe.result = Returned(FALSE)

\* C6: verifySignature never throws; for a missing, empty or blank header, one
\* shorter or longer than the expected text, and one of the same length that
\* differs, it returns false.
C6_NeverThrows ==
    probe.called =>
        /\ ~probe.result.threw
        /\ probe.sig.kind \in UnsignedKinds => ~probe.result.value

\* A header one character short of the expected text: false, returned.
C6_Witness ==
    /\ probe.called
    /\ probe.sig.kind = "short"
    /\ probe.result = Returned(FALSE)

\* C7 (as claimed): a call that passed the checks has, once handlers.map is
\* over, invoked every handler registered for payload.event exactly once, in
\* order, and no other handler.
C7_EveryHandlerOnce ==
    \A c \in CallIds :
        (Dispatched(calls[c]) /\ calls[c].pc \in {"awaiting", "resolved", "rejected"})
            => calls[c].invoked = calls[c].snapshot

\* C8 (as claimed, for a dispatch whose handlers were all started and all
\* returned a promise): when processWebhook has failed with a handler's error,
\* no handler of the dispatch is still pending.
C8_FailsAfterAllSettled ==
    \A c \in CallIds :
        (/\ calls[c].pc = "rejected"
         /\ calls[c].error.class = "HandlerError"
         /\ Len(calls[c].invoked) = Len(calls[c].snapshot)
         /\ \A i \in DOMAIN calls[c].results : calls[c].results[i] # "threw")
            => \A i \in DOMAIN calls[c].results : calls[c].results[i] # "pending"

\* C9 (as claimed): a payload delivered to a handler has data.type = event.
C9_DataTypeIsEvent ==
    \A c \in CallIds :
        calls[c].invoked # <<>> => calls[c].payload.data.type = calls[c].payload.event

SameElsewhere(event) ==
    \A x \in CodegenEventTypeSchema \ {event} :
        /\ MapHas(handlers', x) <=> MapHas(handlers, x)
        /\ MapGetOrEmpty(handlers', x) = MapGetOrEmpty(handlers, x)

Without(list, handler) == SelectSeq(list, LAMBDA h : h # handler)

\* C11: on(event, handler), on any registry, yields for the event the old list
\* with the handler appended, one entry longer, also when the handler is
\* already in the list; and a step of on changes the list of no other event type.
C11_OnAppendsOne ==
    /\ [](\A e \in RegistryEvents, h \in Handlers :
            LET after == on([handlers |-> handlers, calls |-> calls], e, h).handlers
            IN  /\ MapHas(after, e)
                /\ after[e] = Append(MapGetOrEmpty(handlers, e), h)
                /\ Len(after[e]) = Len(MapGetOrEmpty(handlers, e)) + 1)
    /\ [][\A e \in RegistryEvents, h \in Handlers :
            On(e, h) =>
                /\ MapHas(handlers', e)
                /\ handlers'[e] = Append(MapGetOrEmpty(handlers, e), h)
                /\ Len(handlers'[e]) = Len(MapGetOrEmpty(handlers, e)) + 1
                /\ SameElsewhere(e)]_vars

\* The same handler registered twice for one event type, next to another
\* event type's list.
C11_Witness ==
    /\ MapGetOrEmpty(handlers, "agent.started") = <<"h1", "h1">>
    /\ MapGetOrEmpty(handlers, "tool.used") = <<"h2">>
    /\ DOMAIN handlers = RegistryEvents

\* C12: off(event, handler) leaves of the event's list the entries that are
\* not the handler, in their order; the lists of the other event types are
\* unchanged; and off for an event type with no list, or a handler not in the
\* list, changes nothing.
C12_OffRemovesOnlyThat ==
    [][\A e \in RegistryEvents, h \in Handlers :
          Off(e, h) =>
              /\ MapGetOrEmpty(handlers', e) = Without(MapGetOrEmpty(handlers, e), h)
              /\ SameElsewhere(e)
              /\ Without(MapGetOrEmpty(handlers, e), h) = MapGetOrEmpty(handlers, e)
                    => handlers' = handlers]_vars

\* h2 alone left for agent.started, where every other type holds h1 then h2.
C12_Witness ==
    /\ MapGetOrEmpty(handlers, "agent.started") = <<"h2">>
    /\ \A x \in CodegenEventTypeSchema \ {"agent.started"} :
          MapGetOrEmpty(handlers, x) = <<"h1", "h2">>

\* C13: the Map holds no event type with an empty list, so getRegisteredEvents
\* is the set of the event types that have a handler; and an off that takes
\* the last handler of an event type takes the type's entry.
C13_NoEmptyEntry ==
    /\ [](/\ \A e \in DOMAIN handlers : Len(handlers[e]) >= 1
          /\ getRegisteredEvents =
                {e \in CodegenEventTypeSchema : MapGetOrEmpty(handlers, e) # <<>>})
    /\ [][\A e \in RegistryEvents, h \in Handlers :
            (Off(e, h) /\ Without(MapGetOrEmpty(handlers, e), h) = <<>>)
                => ~MapHas(handlers', e)]_vars

\* agent.started has lost its entry while the other types keep a handler.
C13_Witness ==
    /\ "agent.started" \notin getRegisteredEvents
    /\ "agent.completed" \in getRegisteredEvents
    /\ MapGetOrEmpty(handlers, "tool.used") = <<"h1">>

\* C14: removeAllListeners(event) leaves the event type without handlers and
\* the other event types as they were; removeAllListeners() leaves no event
\* type with a handler.
C14_RemoveAllListeners ==
    [][/\ \A e \in RegistryEvents :
            RemoveAllListeners(Given(e)) =>
                (MapGetOrEmpty(handlers', e) = <<>> /\ SameElsewhere(e))
       /\ RemoveAllListeners(AbsentEvent) =>
            \A e \in CodegenEventTypeSchema : MapGetOrEmpty(handlers', e) = <<>>]_vars

\* tool.used cleared of its two handlers, the eight other types keeping theirs.
C14_Witness ==
    /\ ~MapHas(handlers, "tool.used")
    /\ \A x \in CodegenEventTypeSchema \ {"tool.used"} :
          MapGetOrEmpty(handlers, x) = <<"h1", "h2">>

\* The registry after one onAll(handler) on an empty one.
EveryType(handler) == [e \in CodegenEventTypeSchema |-> <<handler>>]

\* C15: the event types onAll registers are the nine of CodegenEventType;
\* onAll(h) appends h to the list of each of them; and a processWebhook call
\* that passes its checks on a registry made by one onAll(h) reads the list
\* <<h>> for its event type and, when handlers.map is over, has invoked h once.
C15_OnAllCoversEveryType ==
    /\ []({OnAllEvents[i] : i \in DOMAIN OnAllEvents} = CodegenEventTypeSchema)
    /\ [][\A h \in Handlers :
            OnAll(h) => \A e \in CodegenEventTypeSchema :
                            MapGetOrEmpty(handlers', e) = Append(MapGetOrEmpty(handlers, e), h)]_vars
    /\ [][\A c \in CallIds, h \in Handlers :
            (/\ calls[c].pc = "idle" /\ calls'[c].pc # "idle"
             /\ calls'[c].payload # NoPayload
             /\ handlers = EveryType(h))
                => (calls'[c].pc = "mapping" /\ calls'[c].snapshot = <<h>>)]_vars
    /\ [](\A c \in CallIds, h \in Handlers :
            (calls[c].snapshot = <<h>> /\ calls[c].pc \in {"awaiting", "resolved", "rejected"})
                => calls[c].invoked = <<h>>)

\* A file.deleted event delivered once to the handler onAll registered.
C15_Witness ==
    \E c \in CallIds :
        /\ calls[c].payload.event = "file.deleted"
        /\ calls[c].invoked = <<"h1">>
        /\ calls[c].pc = "resolved"
        /\ handlers = EveryType("h1")

\* C16: the constructor refuses an empty or blank secret, and then there is no
\* handler object: nothing is ever registered, verified or processed; with a
\* secret and no option given maxAge is 300 and timestamp validation is on;
\* and no operation changes the configuration.
C16_Constructor ==
    /\ [](/\ \E cfg \in ConfigInputs :
                /\ config = constructor(cfg)
                /\ config.ok <=> (cfg.secret # <<>> /\ \E i \in DOMAIN cfg.secret :
                                                        ~IsWhiteSpace(cfg.secret[i]))
                /\ config.ok => config.secret = cfg.secret
                /\ (config.ok /\ ~cfg.maxAge.present) => config.maxAge = 300
                /\ (config.ok /\ cfg.maxAge.present) => config.maxAge = cfg.maxAge.v
                /\ (config.ok /\ ~cfg.validateTimestamp.present) => config.validateTimestamp
                /\ (config.ok /\ cfg.validateTimestamp.present)
                      => config.validateTimestamp = cfg.validateTimestamp.v
          /\ ~config.ok => (/\ handlers = EmptyMap
                            /\ \A c \in CallIds : calls[c] = IdleCall
                            /\ probe = NoProbe))
    /\ [][config' = config]_vars

\* A handler built from a secret alone, having accepted an event 300 s old.
C16_Witness ==
    \E c \in CallIds :
        /\ config = [ok |-> TRUE, secret |-> SecretK, maxAge |-> 300,
                     validateTimestamp |-> TRUE]
        /\ calls[c].invoked # <<>>
        /\ calls[c].now - TimestampOf(calls[c]) = 300 * MsPerSecond

\* The waitForCompletion calls that have polled.
Waiting(k) == k.op = "waitForCompletion" /\ k.polls >= 1
Elapsed(k) == k.polledAt - k.startTime

Pending(k) == Waiting(k) /\ k.last.status \in AgentStatusSchema \ TerminalStatuses
MaxPolls(k) == k.options.timeout \div k.options.pollInterval + 2

C19_ResultOnlyWhenCompleted ==
    \A c \in BridgeCallIds :
        LET k == bridgeCalls[c]
        IN  k.op = "getTaskResult" =>
              /\ k.pc = "resolved" =>
                    /\ k.last.status = "completed"
                    /\ k.returned = "result"
                    /\ k.result = IF k.last.result \in {JNull, JUndefined, JString("")}
                                  THEN JNull ELSE k.last.result
              /\ k.last.status = "completed" => k.pc = "resolved"
              /\ k.last.status \in AgentStatusSchema \ {"completed"} =>
                    /\ k.pc = "rejected"
                    /\ k.error.class = "CodegenBridgeError"
                    /\ k.returned = "none"

\* A completed task with the empty string as its result: null is returned.
C19_Witness ==
    \E c \in BridgeCallIds :
        /\ bridgeCalls[c].op = "getTaskResult"
        /\ bridgeCalls[c].last = Task("completed", JString(""))
        /\ bridgeCalls[c].pc = "resolved"
        /\ bridgeCalls[c].result = JNull

\* C20: a call that begins when the bridge is initialized starts no
\* availability check, and once the bridge is initialized checkPython is not
\* started again; the flag is set, and never cleared, only in the step in
\* which checkCodegenInstalled succeeds for a call whose checkPython had
\* succeeded; and the step in which a check fails leaves the flag as it was.
C20_InitializesOnce ==
    /\ [](\A c \in BridgeCallIds :
            bridgeCalls[c].sawInitialized => bridgeCalls[c].ran = 0)
    /\ [][/\ initialized => (initialized' /\ checks'.checkPython = checks.checkPython)
          /\ (~initialized /\ initialized') =>
                \E c \in BridgeCallIds :
                    /\ bridgeCalls[c].pc = "checkCodegenInstalled"
                    /\ bridgeCalls[c].ran = 2
                    /\ bridgeCalls'[c].pc \notin {"checkCodegenInstalled", "checkPython"}
                    /\ bridgeCalls'[c].error.class # "CodegenBridgeError"
                          \/ bridgeCalls'[c].error.code \notin
                                {"PYTHON_NOT_FOUND", "CODEGEN_NOT_INSTALLED"}
          /\ \A c \in BridgeCallIds :
                (/\ bridgeCalls[c].pc \in {"checkPython", "checkCodegenInstalled"}
                 /\ bridgeCalls'[c].pc = "rejected"
                 /\ bridgeCalls'[c].error.code \in {"PYTHON_NOT_FOUND", "CODEGEN_NOT_INSTALLED"})
                    => initialized' = initialized]_vars

\* initialize() has run the two checks and, called again, has run none; each
\* check was started once.
C20_Witness ==
    /\ initialized
    /\ checks = [checkPython |-> 1, checkCodegenInstalled |-> 1]
    /\ \E c, d \in BridgeCallIds :
          /\ bridgeCalls[c].op = "initialize" /\ bridgeCalls[c].pc = "resolved"
          /\ bridgeCalls[c].ran = 2
          /\ bridgeCalls[d].op = "initialize" /\ bridgeCalls[d].pc = "resolved"
          /\ bridgeCalls[d].sawInitialized /\ bridgeCalls[d].ran = 0

(***************************************************************************)
(* C21: every failure of PythonExecutor.execute reaches the caller as a    *)
(* CodegenBridgeError: a call of execute that is rejected, the first one   *)
(* and every later one, is rejected with an error of that class.           *)
(***************************************************************************)
C21_RejectsWithBridgeError ==
    \A c \in ExecIds :
        executor.calls[c].pc = "rejected"
            => executor.calls[c].error.class = "CodegenBridgeError"

(***************************************************************************)
(* C30: overlapping execute calls do not interfere: the Python process of  *)
(* a call reads a script file that holds exactly the script content passed *)
(* to that call.                                                           *)
(***************************************************************************)
C30_RunsOwnScript ==
    \A c \in ExecIds :
        executor.calls[c].spawned /\ executor.calls[c].ran # NoScript
            => executor.calls[c].ran = executor.calls[c].scriptContent

\* baseDelay doubled attempt - 1 times.
RECURSIVE Doubled(_, _)
Doubled(baseDelay, attempt) ==
    IF attempt <= 1 THEN baseDelay ELSE 2 * Doubled(baseDelay, attempt - 1)

(***************************************************************************)
(* C22: calculateRetryDelay(attempt, baseDelay, maxDelay) is               *)
(* min(baseDelay * 2^(attempt-1), maxDelay) for every attempt >= 1, with   *)
(* the defaults 1000 and 30000: it never exceeds maxDelay and does not     *)
(* decrease from one attempt to the next.                                  *)
(***************************************************************************)
C22_RetryDelay ==
    backoff.attempt >= 1 =>
        LET base == IF backoff.baseDelay.present THEN backoff.baseDelay.v ELSE 1000
            max == IF backoff.maxDelay.present THEN backoff.maxDelay.v ELSE 30000
            exp == Doubled(base, backoff.attempt)
        IN  /\ backoff.value = IF exp <= max THEN exp ELSE max
            /\ backoff.value <= max
            /\ backoff.attempt >= 2 => backoff.previous <= backoff.value

\* A call at a late attempt that the maximum caps, after one it did not cap.
C22_Witness ==
    /\ backoff.attempt >= 2
    /\ backoff.value = OrDefault(backoff.maxDelay, DefaultMaxDelay)
    /\ backoff.previous < backoff.value
    /\ backoff.previous = Doubled(OrDefault(backoff.baseDelay, DefaultBaseDelay),
                                  backoff.attempt - 1)

\* Whether the debounced function's timer is set.
TimerSet == debouncer.closure.timeoutId # NoTimer

\* Every call of func so far came wait ms or more after the last call of the
\* debounced function, with that call's arguments.
InvokedLateWithLastArgs ==
    debouncer.invocations > 0 =>
        /\ debouncer.sinceLastCall >= debouncer.wait
        /\ debouncer.invokedWith \in DebounceArgs
        /\ ~TimerSet => debouncer.invokedWith = debouncer.lastArgs

C24_Throttle ==
    /\ [](/\ throttler.calls >= 1 => throttler.firstInvoked
          /\ throttler.minGap # -1 => throttler.minGap >= throttler.wait
          /\ (throttler.calls >= 2 /\ throttler.callGap < throttler.wait)
                 => ~throttler.callInvoked)
    /\ [][throttler'.invocations # throttler.invocations
             => /\ throttler'.calls = throttler.calls + 1
                /\ throttler'.invocations = throttler.invocations + 1
                /\ throttler'.invokedAt = throttler.now]_vars

\* A throttler with wait 2 after four calls: the first invoked func, func was
\* invoked once more exactly 2 ms after that, and the last call, 1 ms after an
\* invocation, was dropped.
C24_Witness ==
    /\ throttler.wait = 2
    /\ throttler.calls = 4
    /\ throttler.invocations = 2
    /\ throttler.minGap = 2
    /\ throttler.firstInvoked
    /\ ~throttler.callInvoked
    /\ throttler.callGap = 1

\* The failures the claims call retryable: no response reached the client (a
\* network error, a request that could not be sent), or the status is 5xx.
NetworkOr5xx == {"noResponse", "setup", "http503"}

(***************************************************************************)
(* C27: CodegenClient retries a failed request only when the failure is a  *)
(* network error or a 5xx response: every failure that was followed by     *)
(* another attempt or by the backoff timer is of that kind, and any other  *)
(* failure (a 4xx response, a body the response schema refuses) ends the   *)
(* call at once with that error.                                           *)
(***************************************************************************)
C27_RetriesOnlyNetworkOr5xx ==
    \A i \in DOMAIN client.failures :
        client.failures[i] \notin NetworkOr5xx
            => /\ i = Len(client.failures)
               /\ client.pc = "rejected"
               /\ client.error = requestError(client.failures[i])

(***************************************************************************)
(* C28: retryRequest terminates.  It never makes more than                 *)
(* max(1, retryAttempts) attempts; a request that keeps failing with a     *)
(* retryable error gets exactly that many and is then rejected with the    *)
(* last error; the timer set after attempt k has the delay                 *)
(* retryDelay * 2^(k-1); the first successful attempt ends the call, which *)
(* returns its result.                                                     *)
(***************************************************************************)
C28_BoundedRetries ==
    LET most == IF client.attempts >= 1 THEN client.attempts ELSE 1
        n == Len(client.failures)
    IN  /\ client.requests <= most
        /\ client.pc \in {"request", "resolved"} => client.requests = n + 1
        /\ client.pc \in {"sleeping", "rejected"} /\ client.requests >= 1
               => client.requests = n
        /\ (/\ client.pc = "rejected"
            /\ n >= 1
            /\ \A i \in 1..n : client.failures[i] \in NetworkOr5xx)
               => /\ client.requests = most
                  /\ client.error = requestError(client.failures[n])
                  /\ Len(client.delays) = most - 1
        /\ \A k \in DOMAIN client.delays : client.delays[k] = Doubled(client.delay, k)
        /\ Len(client.delays) <= n
        /\ client.pc = "resolved" => client.error = NoClientError

\* The default configuration: three attempts that failed with a 5xx response,
\* no response and a 5xx response, with timers of 1000 and 2000 ms between them.
C28_Witness ==
    /\ client.attempts = 3
    /\ client.pc = "rejected"
    /\ client.failures = <<"http503", "noResponse", "http503">>
    /\ client.delays = <<1000, 2000>>
    /\ client.error = requestError("http503")

(***************************************************************************)
(* C25: a processWebhook call that has resolved has invoked every handler  *)
(* it read for the event, and every one of them has finished: none is      *)
(* pending, none failed; a call that found no handler for the event has    *)
(* resolved without error and has invoked nothing.                         *)
(***************************************************************************)
C25_ResolvesAfterAllHandlers ==
    \A c \in CallIds :
        LET k == calls[c]
        IN  /\ k.pc = "resolved"
                => /\ k.error = NoError
                   /\ Len(k.results) = Len(k.snapshot)
                   /\ Len(k.invoked) = Len(k.snapshot)
                   /\ \A i \in DOMAIN k.results : k.results[i] = "fulfilled"
            /\ (Dispatched(k) /\ k.snapshot = <<>>)
                => (k.pc = "resolved" /\ k.invoked = <<>> /\ k.results = <<>>)

\* A call that resolved after its two handlers, and a registry operation since.
C25_Witness ==
    \E c \in CallIds :
        /\ calls[c].pc = "resolved"
        /\ calls[c].invoked = <<"h1", "h2">>
        /\ calls[c].results = <<"fulfilled", "fulfilled">>
        /\ MapGetOrEmpty(handlers, "agent.started") = <<>>

\* A step of the processWebhook call c: its start, a handler called by
\* handlers.map, or the settling of a handler's promise.
ProcessStep(c) ==
    /\ calls'[c] # calls[c]
    /\ \/ calls'[c].pc # calls[c].pc
       \/ calls'[c].idx # calls[c].idx
       \/ calls'[c].results # calls[c].results

(***************************************************************************)
(* C26: processWebhook never changes the handler registry: every step of a *)
(* call, successful or failed, leaves the Map of handlers and the          *)
(* handler's configuration as they are, and leaves the other call as it    *)
(* is, so overlapping calls share no mutable state.                        *)
(***************************************************************************)
C26_RegistryUntouched ==
    [][\A c \in TwoCallIds :
          ProcessStep(c)
              => /\ handlers' = handlers
                 /\ config' = config
                 /\ \A d \in TwoCallIds \ {c} : calls'[d] = calls[d]]_vars

\* Two overlapping calls, one refused for its signature and one waiting for its
\* handler, with the handler still registered.
C26_Witness ==
    /\ DOMAIN calls = TwoCallIds
    /\ calls[1].pc = "awaiting"
    /\ calls[2].pc = "rejected"
    /\ calls[2].error = SignatureInvalid
    /\ MapGetOrEmpty(handlers, "agent.started") = calls[1].snapshot
    /\ calls[1].snapshot = <<"h1">>

(***************************************************************************)
(* C29: within one dispatch the handlers are started in registration       *)
(* order.  on appends, so the array of an event type lists its handlers in *)
(* the order of their registration; the dispatch reads that array and      *)
(* calls its elements first to last, each call starting after the one      *)
(* before it; and when processWebhook comes to wait for the handlers, all  *)
(* of them have been started.  A handler that throws synchronously ends    *)
(* the call before it waits for anything.                                  *)
(***************************************************************************)
C29_StartedInOrder ==
    /\ [](\A c \in CallIds :
            LET k == calls[c]
            IN  /\ \A i \in DOMAIN k.invoked : k.invoked[i] = k.snapshot[i]
                /\ Len(k.results) = Len(k.invoked)
                /\ k.pc = "awaiting" => Len(k.invoked) = Len(k.snapshot))
    /\ [][\A c \in CallIds :
            /\ (calls[c].pc = "idle" /\ calls'[c].pc = "mapping")
                  => calls'[c].snapshot = MapGetOrEmpty(handlers, calls'[c].payload.event)
            /\ calls'[c].invoked # calls[c].invoked
                  => /\ calls[c].pc = "mapping"
                     /\ calls'[c].snapshot = calls[c].snapshot
                     /\ Len(calls[c].invoked) < Len(calls[c].snapshot)
                     /\ calls'[c].invoked =
                            Append(calls[c].invoked,
                                   calls[c].snapshot[Len(calls[c].invoked) + 1])
            /\ calls[c].pc = "mapping"
                  => \A i \in DOMAIN calls[c].results :
                         calls'[c].results[i] = calls[c].results[i]]_vars
    /\ [][\A e \in RegEvents, h \in Handlers :
            On(e, h) => SubSeq(handlers'[e], 1, Len(MapGetOrEmpty(handlers, e)))
                            = MapGetOrEmpty(handlers, e)]_vars

\* h2 was registered before h1; the dispatch has started h2, then h1, and waits
\* for both.
C29_Witness ==
    \E c \in CallIds :
        /\ calls[c].pc = "awaiting"
        /\ calls[c].snapshot = <<"h2", "h1">>
        /\ calls[c].invoked = <<"h2", "h1">>
        /\ calls[c].results = <<"pending", "pending">>
====
